---- MODULE Spec2Model ----
(***************************************************************************)
(* Model of custom_components/seattle_utilities/seattle_utility_api.py:    *)
(* the OracleClient token bundle, the nine-request SSO login pipeline and  *)
(* the authenticated requests of SeattleUtilityClient, together with the   *)
(* coordinator update of sensor.py that drives them.                       *)
(*                                                                         *)
(* A Python str is a sequence of its "/"-separated pieces, so              *)
(* "https://h/a/b" is <<"https:", "", "h", "a", "b">>; None of a str is    *)
(* the empty sequence.  A Python dict is a record whose DOMAIN is its key  *)
(* set.  Wall-clock instants and durations are counted in milliseconds.    *)
(*                                                                         *)
(* Spec and SpecOverlap are the token bundle, the login and the requests.  *)
(* SpecCost applies _estimate_usage_cost to one usage, SpecUsage applies   *)
(* get_daily_usage and get_latest_meter_usage to a provider history, and   *)
(* SpecMeters walks get_meters and get_latest_usage through the provider's *)
(* account groups, holder accounts and bills.  The dict of meters, whose   *)
(* order of insertion matters, is a record of its key sequence and the     *)
(* function from key to value.  SpecParser feeds a document to an          *)
(* HTMLOracleFormParser, SpecScript reads the identity data out of a       *)
(* script, and SpecSensor is the platform of sensor.py: the coordinator    *)
(* and the two entities of each meter.  SpecFlow is the user step of the   *)
(* config flow of config_flow.py, with the login and the get_meters       *)
(* request it awaits.                                                      *)
(***************************************************************************)
EXTENDS Integers, Sequences, FiniteSets, TLC

\* ------------------------------------------------------------------ bounds
MaxTicks   == 4    \* half-second clock steps the model takes
MaxLogins  == 2    \* login calls the host makes
MaxExpires == 1    \* largest expires_in (seconds) the token endpoint grants
MaxGroups  == 1    \* account groups in an account-list response
MaxHolders == 1    \* holder accounts in an account-holders response
MaxMeters  == 1    \* distinct meter ids the provider knows

\* ------------------------------------------------------- program constants
MsPerSecond == 1000      \* timedelta(seconds=n) is n * 1000 ms
CreatedDivisor == 1000   \* "created" is in ms: created / 1000 is in seconds

NoneStr == <<>>
NoInfo  == [none |-> TRUE]
\* what tells the provider's answers of one login session from another's
SessionTags == <<"s1", "s2", "s3", "s4", "s5">>
MeterIds == 1..MaxMeters

base_domain == "myutilities.seattle.gov"
SsoEntryUrl == <<"https:", "", base_domain, "rest", "auth", "ssologin">>
DefaultAuthenticationUrl == <<"https:", "", base_domain, "authenticate">>
SeattleAuthenticationUrl == <<"https:", "", "login.seattle.gov", "authenticate">>
AuthTokenUrl == <<"https:", "", base_domain, "rest", "auth", "token">>
SessionPath == <<"sso", "v1", "sdk", "session">>
Username == <<"user">>
Password == <<"pw">>

\* ----------------------------------------------------------------- helpers
\* dict.get(key, default)
Get(d, k, default) == IF k \in DOMAIN d THEN d[k] ELSE default

\* requests refuses to send to a URL without a scheme (MissingSchema)
HasScheme(url) == Len(url) >= 3 /\ url[1] = "https:"

\* faulty variant: the status is never checked
StatusOKNoRaise(status) == TRUE
\* res.raise_for_status(): TRUE when it returns, FALSE when it raises HTTPError
StatusOK(status) == ~(400 <= status /\ status < 600)

\* urllib.parse.urljoin(base, relative path)
urljoin(base, rel) ==
    IF base = NoneStr THEN rel
    ELSE IF Len(base) >= 4 THEN SubSeq(base, 1, Len(base) - 1) \o rel
    ELSE base \o rel

\* faulty variant: split("/", 1), at the first "/"
rsplitFirst(s) == IF Len(s) >= 2 THEN <<<<s[1]>>, SubSeq(s, 2, Len(s))>> ELSE <<s>>
\* s.rsplit("/", 1): the pieces left and right of the last "/"
rsplit(s) == IF Len(s) >= 2 THEN <<SubSeq(s, 1, Len(s) - 1), <<s[Len(s)]>>>> ELSE <<s>>

\* json.loads(text): a str holding a JSON document decodes, anything else raises
JsonText(v) == <<"json", v>>
json_loads(text) ==
    IF text = NoneStr THEN [raised |-> "TypeError", value |-> NoneStr]
    ELSE IF text[1] = "json" THEN [raised |-> "none", value |-> <<"state", text[2]>>]
    ELSE [raised |-> "JSONDecodeError", value |-> NoneStr]

\* ------------------------------------------------------- token properties
\* OracleClient.token_created_at, in ms since the epoch
token_created_at(i) ==
    IF i = NoInfo THEN [raised |-> "TypeError", value |-> 0, isNone |-> FALSE]
    ELSE IF "created" \notin DOMAIN i THEN [raised |-> "none", value |-> 0, isNone |-> TRUE]
    ELSE [raised |-> "none", value |-> (i.created * MsPerSecond) \div CreatedDivisor, isNone |-> FALSE]

\* OracleClient.token_expires_in, a duration in ms
token_expires_in(i) ==
    IF "expires_in" \notin DOMAIN i THEN 0 ELSE i.expires_in * MsPerSecond

\* faulty variant: expired only after the deadline (> for >=)
is_token_expiredStrict(i, t) ==
    LET c == token_created_at(i) IN
    IF c.raised # "none" THEN c.raised
    ELSE IF c.isNone THEN "True"
    ELSE IF t - c.value > token_expires_in(i) THEN "True" ELSE "False"
\* OracleClient.is_token_expired: "True", "False" or the exception raised
is_token_expired(i, t) ==
    LET c == token_created_at(i) IN
    IF c.raised # "none" THEN c.raised
    ELSE IF c.isNone THEN "True"
    ELSE IF t - c.value >= token_expires_in(i) THEN "True" ELSE "False"

\* faulty variant: the properties do not check for None
AuthRequiredNever(i) == FALSE
\* the guard of _access_token, user_customer_id and username
AuthRequired(i) == i = NoInfo

access_token(i) == Get(i, "access_token", 0)
user_customer_id(i) == Get(Get(i, "user", [none |-> TRUE]), "customerId", 0)
username(i) == Get(Get(i, "user", [none |-> TRUE]), "userName", 0)

\* ------------------------------------------------------------------ state
VARIABLES
    now,           \* datetime.now(), ms
    info,          \* OracleClient._authentication_token_info
    issued,        \* the JSON document the token endpoint answered with last
    loginCount,    \* login calls started so far
    loginPc,       \* position of the login call: "idle" or the next hop
    L,             \* the locals of the running _login call
    hops,          \* the requests the current (or last) login call has sent
    loginResult,   \* how the last login call ended
    infoAtLogin,   \* the bundle held when the current (or last) login call began
    op,            \* the running get_meters / get_latest_usage call
    lastReq,       \* the last request request_payload has sent
    expiredRead,   \* what the last read of is_token_expired gave
    coord,         \* position of the coordinator's async_update_data
    rates,         \* SeattleUtilityClient._rates
    today,         \* date.today(), a day of the year
    history,       \* the "history" list of the provider's usage answer
    usage,         \* the MeterUsage object handed to _estimate_usage_cost
    result,        \* how the last data call ended and what it returned
    trav,          \* the running get_meters / get_latest_usage traversal
    doc,           \* the text of a response: its tags, or its script statements
    parser,        \* an HTMLOracleFormParser
    hass,          \* the coordinator's data and the entities of sensor.py
    flow           \* the ConfigFlow, its last result and the config entries

\* the variables of the data calls
dvars == <<rates, today, history, usage, result, trav>>

\* the variables of the text parsing and of the entities
xvars == <<doc, parser, hass, flow>>

vars == <<now, info, issued, loginCount, loginPc, L, hops, loginResult,
          infoAtLogin, op, lastReq, expiredRead, coord, dvars, xvars>>

InitL == [v |-> "s0", authentication_url |-> NoneStr, oracle_location |-> NoneStr,
          oracle_identity_url |-> NoneStr, identity_url |-> NoneStr,
          identity_req_data |-> NoneStr, signinAT |-> NoneStr, baseUri |-> NoneStr,
          initialState |-> NoneStr, authnToken |-> NoneStr, login_url |-> NoneStr,
          login_data |-> NoneStr, saml_url |-> NoneStr, saml_data |-> NoneStr,
          usertoken |-> NoneStr]

NoResult == [raised |-> "none", cause |-> "none"]
Running  == [raised |-> "running", cause |-> "none"]
LoginOK  == [raised |-> "ok", cause |-> "none"]

NoReq == [path |-> "none", customerId |-> 0, csrId |-> 0, token |-> 0,
          expired |-> FALSE, status |-> 0]

OpIdle == [kind |-> "none", pc |-> "idle", phase |-> "payload",
           payload |-> [customerId |-> 0, csrId |-> 0],
           groupsLeft |-> 0, holdersLeft |-> 0, meters |-> {}, usageLeft |-> {},
           result |-> "none", attempts |-> 0, relogins |-> 0]

\* the first statement of get_meters: about to build the account-list payload
StartedOp(kind) == [OpIdle EXCEPT !.kind = kind, !.pc = "accounts", !.result = "running"]

\* rates=None, the default of SeattleUtilityClient(rates)
NoRates == [none |-> TRUE]
\* the None that next(..., None) gives
NoUsage == [none |-> TRUE]
\* the int 0 that _estimate_usage_cost returns without rates; it has no fields
IntZero == [int |-> 0]

\* a dict: its keys in insertion order and the value held at each key
EmptyDict == [keys |-> <<>>, at |-> [k \in {} |-> NoUsage]]

NoCall == [call |-> "none", raised |-> "none", value |-> <<>>, start |-> 0,
           end |-> 0, n |-> 0]

NoDataReq == [path |-> "none", customerId |-> 0, companyCode |-> 0,
              page |-> NoneStr, accountNumber |-> NoneStr]

TravIdle == [kind |-> "none", pc |-> "idle", groups |-> <<>>, holders |-> <<>>,
             meters |-> EmptyDict, latest |-> EmptyDict, usageLeft |-> <<>>,
             lastReq |-> NoDataReq, holdersReqs |-> 0, billsReqs |-> 0,
             groupsSeen |-> 0, holdersSeen |-> 0, first |-> EmptyDict.at,
             again |-> FALSE, morePages |-> FALSE]

\* HTMLOracleFormParser.__init__, with the feed calls counted
NewParser == [form_url |-> NoneStr, form_data |-> EmptyDict, name |-> NoneStr,
              value |-> NoneStr, fed |-> 0]
\* no coordinator and no entity yet
NoHass == [pc |-> "none", data |-> [none |-> TRUE], last_update_success |-> TRUE,
           refreshes |-> 0, entities |-> <<>>]

\* what async_step_user returns
FlowResult(type, reason, errors) == [type |-> type, reason |-> reason, errors |-> errors]
NoFlowResult == FlowResult("none", "none", "none")
\* user_input=None; no step of the flow runs and no config entry exists
NoInput == [none |-> TRUE]
NoFlow == [pc |-> "idle", user_input |-> NoInput, entries |-> 0, result |-> NoFlowResult]

\* no text is parsed and the platform is not set up
TextIdle ==
    /\ doc = <<>>
    /\ parser = NewParser
    /\ hass = NoHass
    /\ flow = NoFlow

\* no data call has been made
DataIdle ==
    /\ rates = NoRates
    /\ today = 1
    /\ history = <<>>
    /\ usage = NoUsage
    /\ result = NoCall
    /\ trav = TravIdle

\* a client that holds the token bundle i and runs no call
ClientHolding(i) ==
    /\ info = i
    /\ issued = i
    /\ now = 0
    /\ loginCount = 0
    /\ loginPc = "idle"
    /\ L = InitL
    /\ hops = <<>>
    /\ loginResult = NoResult
    /\ infoAtLogin = NoInfo
    /\ op = OpIdle
    /\ lastReq = NoReq
    /\ expiredRead = "unread"
    /\ coord = "idle"

Init ==
    /\ DataIdle
    /\ TextIdle
    /\ now = 0
    /\ info = NoInfo
    /\ issued = NoInfo
    /\ loginCount = 0
    /\ loginPc = "idle"
    /\ L = InitL
    /\ hops = <<>>
    /\ loginResult = NoResult
    /\ infoAtLogin = NoInfo
    /\ op = OpIdle
    /\ lastReq = NoReq
    /\ expiredRead = "unread"
    /\ coord = "idle"

\* the wall clock advances by half a second
Tick ==
    /\ UNCHANGED dvars
    /\ UNCHANGED xvars
    /\ now + MsPerSecond \div 2 <= MaxTicks * (MsPerSecond \div 2)
    /\ now' = now + MsPerSecond \div 2
    /\ UNCHANGED <<info, issued, loginCount, loginPc, L, hops, loginResult,
                   infoAtLogin, op, lastReq, expiredRead, coord>>

\* the host reads client.is_token_expired
ReadExpired ==
    /\ UNCHANGED dvars
    /\ UNCHANGED xvars
    /\ expiredRead' = is_token_expired(info, now)
    /\ expiredRead' # expiredRead
    /\ UNCHANGED <<now, info, issued, loginCount, loginPc, L, hops, loginResult,
                   infoAtLogin, op, lastReq, coord>>

\* ------------------------------------------------- the provider's answers
OracleLocation(v)  == <<"https:", "", "login.oracle", "oam", v>>
IdentityUrl(v)     == <<"https:", "", "idcs.oracle", "ui", v>>
IdentityFormUrl(v) == <<"https:", "", "idcs.oracle", "identity", v>>
BaseUri(v)         == <<"https:", "", "idcs.oracle", v, "">>
LoginFormUrl(v)    == <<"https:", "", "idcs.oracle", "fed", v>>
SamlFormUrl(v)     == <<"https:", "", base_domain, "saml", v>>
SamlLocation(v)    == <<"https:", "", base_domain, "sso", "usertoken", v>>

LocationResponses(loc) ==
    {[status |-> 302, Location |-> loc],
     [status |-> 200, Location |-> NoneStr],
     [status |-> 500, Location |-> NoneStr]}

FormResponses(url, data) ==
    {[status |-> 200, Location |-> NoneStr, form_url |-> url, form_data |-> data],
     [status |-> 200, Location |-> NoneStr, form_url |-> NoneStr, form_data |-> NoneStr],
     [status |-> 500, Location |-> NoneStr, form_url |-> NoneStr, form_data |-> NoneStr]}

IdentityResponses(v) ==
    {[status |-> 200, signinAT |-> <<"signinAT", v>>, baseUri |-> BaseUri(v),
      initialState |-> JsonText(v)],
     [status |-> 200, signinAT |-> <<"signinAT", v>>, baseUri |-> NoneStr,
      initialState |-> JsonText(v)],
     [status |-> 200, signinAT |-> <<"signinAT", v>>, baseUri |-> BaseUri(v),
      initialState |-> NoneStr],
     [status |-> 200, signinAT |-> <<"signinAT", v>>, baseUri |-> BaseUri(v),
      initialState |-> <<"{not json">>],
     [status |-> 500, signinAT |-> NoneStr, baseUri |-> NoneStr, initialState |-> NoneStr]}

AuthenticationResponses(v) ==
    {[status |-> 200, isJson |-> TRUE, authnToken |-> <<"authn", v>>],
     [status |-> 200, isJson |-> FALSE, authnToken |-> NoneStr],
     [status |-> 401, isJson |-> TRUE, authnToken |-> NoneStr]}

SamlResponses(v) ==
    {[status |-> 302, Location |-> SamlLocation(v), form_url |-> NoneStr, form_data |-> NoneStr],
     [status |-> 302, Location |-> <<"done">>, form_url |-> NoneStr, form_data |-> NoneStr],
     [status |-> 200, Location |-> NoneStr, form_url |-> NoneStr, form_data |-> NoneStr],
     [status |-> 500, Location |-> NoneStr, form_url |-> NoneStr, form_data |-> NoneStr]}

\* the token endpoint stamps "created" with the time it answers at
TokenDocuments(n, t) ==
    {[access_token |-> n, created |-> t, expires_in |-> e,
      user |-> [customerId |-> n, userName |-> n]] : e \in 0..MaxExpires}
    \cup {[access_token |-> n, created |-> t, user |-> [customerId |-> n, userName |-> n]],
          [access_token |-> n, expires_in |-> MaxExpires,
           user |-> [customerId |-> n, userName |-> n]]}

TokenResponses(n, t) ==
    {[status |-> 200, isJson |-> TRUE, json |-> d] : d \in TokenDocuments(n, t)}
    \cup {[status |-> 200, isJson |-> FALSE, json |-> NoInfo],
          [status |-> 500, isJson |-> FALSE, json |-> NoInfo]}

\* ------------------------------------------------------ the login pipeline
Req(k, method, url, data, resp) ==
    [hop |-> k, method |-> method, url |-> url, data |-> data, resp |-> resp]

\* faulty variant: except requests.HTTPError only
except_clauseHTTPOnly(cause) ==
    IF cause = "HTTPError" THEN [raised |-> "ConnectionRefusedError", cause |-> cause]
    ELSE [raised |-> cause, cause |-> "none"]
\* except Exception as e: raise ConnectionRefusedError(...) from e
except_clause(cause) == [raised |-> "ConnectionRefusedError", cause |-> cause]

\* faulty variant: the held dict is updated key by key
StoreBundleMerge(old, json) ==
    IF old = NoInfo THEN json ELSE [k \in DOMAIN old |-> IF k = "access_token" THEN json[k] ELSE old[k]]
\* self._authentication_token_info = auth_token_res.json()
StoreBundle(old, json) == json

\* OracleClient.login / SeattleUtilityClient.login enter _login
BeginLogin(authentication_url) ==
    /\ loginCount' = loginCount + 1
    /\ loginPc' = "hop1"
    /\ L' = [InitL EXCEPT !.v = SessionTags[loginCount + 1],
                           !.authentication_url = authentication_url]
    /\ hops' = <<>>
    /\ loginResult' = Running
    /\ infoAtLogin' = info

\* the host calls login while nothing else runs on the client
StartLogin ==
    /\ UNCHANGED dvars
    /\ UNCHANGED xvars
    /\ loginPc = "idle"
    /\ coord = "idle"
    /\ op.pc = "idle"
    /\ loginCount < MaxLogins
    /\ \E u \in {NoneStr, SeattleAuthenticationUrl} : BeginLogin(u)
    /\ op' = OpIdle
    /\ lastReq' = NoReq
    /\ UNCHANGED <<now, info, issued, expiredRead, coord>>

\* the host calls login from a second executor job while an operation runs
StartLoginOverlapping ==
    /\ UNCHANGED dvars
    /\ UNCHANGED xvars
    /\ loginPc = "idle"
    /\ coord = "idle"
    /\ op.pc # "idle"
    /\ loginCount < MaxLogins
    /\ BeginLogin(SeattleAuthenticationUrl)
    /\ UNCHANGED <<now, info, issued, op, lastReq, expiredRead, coord>>

\* faulty variant: a failed login drops the bundle
LoginFailClearing(cause, newHops) ==
    /\ loginPc' = "idle"
    /\ loginResult' = except_clause(cause)
    /\ hops' = newHops
    /\ L' = InitL
    /\ info' = NoInfo
    /\ coord' = IF coord = "login" THEN "idle" ELSE coord
    /\ UNCHANGED <<now, issued, loginCount, infoAtLogin, op, lastReq, expiredRead>>
\* an exception leaves the try block: the call ends, the bundle is not touched
LoginFail(cause, newHops) ==
    /\ loginPc' = "idle"
    /\ loginResult' = except_clause(cause)
    /\ hops' = newHops
    /\ L' = InitL
    /\ info' = info
    /\ coord' = IF coord = "login" THEN "idle" ELSE coord
    /\ UNCHANGED <<now, issued, loginCount, infoAtLogin, op, lastReq, expiredRead>>

LoginGoto(pc, newL, newHops) ==
    /\ loginPc' = pc
    /\ L' = newL
    /\ hops' = newHops
    /\ UNCHANGED <<now, info, issued, loginCount, loginResult, infoAtLogin, op,
                   lastReq, expiredRead, coord>>

\* __get_location: GET the SSO entry, require a Location
Hop1 ==
    /\ UNCHANGED dvars
    /\ UNCHANGED xvars
    /\ loginPc = "hop1"
    /\ \E r \in LocationResponses(OracleLocation(L.v)) :
        LET sent == Append(hops, Req(1, "GET", SsoEntryUrl, NoneStr, r)) IN
        IF ~StatusOK(r.status) THEN LoginFail("HTTPError", sent)
        ELSE IF r.Location = NoneStr THEN LoginFail("LookupError", sent)
        ELSE LoginGoto("hop2", [L EXCEPT !.oracle_location = r.Location], sent)

\* __get_oracle_identity: GET the oracle location, keep its Location (or None)
Hop2 ==
    /\ UNCHANGED dvars
    /\ UNCHANGED xvars
    /\ loginPc = "hop2"
    /\ IF ~HasScheme(L.oracle_location) THEN LoginFail("MissingSchema", hops)
       ELSE \E r \in LocationResponses(IdentityUrl(L.v)) :
        LET sent == Append(hops, Req(2, "GET", L.oracle_location, NoneStr, r)) IN
        IF ~StatusOK(r.status) THEN LoginFail("HTTPError", sent)
        ELSE LoginGoto("hop3", [L EXCEPT !.oracle_identity_url = r.Location], sent)

\* __get_oracle_identity: GET the identity URL, parse its form
Hop3 ==
    /\ UNCHANGED dvars
    /\ UNCHANGED xvars
    /\ loginPc = "hop3"
    /\ IF ~HasScheme(L.oracle_identity_url) THEN LoginFail("MissingSchema", hops)
       ELSE \E r \in FormResponses(IdentityFormUrl(L.v), <<"OCIS_REQ", L.v>>) :
        LET sent == Append(hops, Req(3, "GET", L.oracle_identity_url, NoneStr, r)) IN
        IF ~StatusOK(r.status) THEN LoginFail("HTTPError", sent)
        ELSE LoginGoto("hop4", [L EXCEPT !.identity_url = r.form_url,
                                         !.identity_req_data = r.form_data], sent)

\* __get_oracle_identity: POST the identity form, read the setItem literals
Hop4 ==
    /\ UNCHANGED dvars
    /\ UNCHANGED xvars
    /\ loginPc = "hop4"
    /\ IF ~HasScheme(L.identity_url) THEN LoginFail("MissingSchema", hops)
       ELSE \E r \in IdentityResponses(L.v) :
        LET sent == Append(hops, Req(4, "POST", L.identity_url, L.identity_req_data, r))
            state == json_loads(r.initialState) IN
        IF ~StatusOK(r.status) THEN LoginFail("HTTPError", sent)
        ELSE IF state.raised # "none" THEN LoginFail(state.raised, sent)
        ELSE LoginGoto("hop5", [L EXCEPT !.signinAT = r.signinAT, !.baseUri = r.baseUri,
                                         !.initialState = state.value], sent)

\* faulty variant: the credentials go to the base URI the identity page named
CredentialUrlFromPage(l) == urljoin(l.baseUri, <<"authenticate">>)
\* lines 136-137: the caller's authentication_url, the fixed default when None
CredentialUrl(l) ==
    IF l.authentication_url = NoneStr THEN DefaultAuthenticationUrl
    ELSE l.authentication_url

\* __get_authentication_tokens: POST the credentials
Hop5 ==
    /\ UNCHANGED dvars
    /\ UNCHANGED xvars
    /\ loginPc = "hop5"
    /\ LET url == CredentialUrl(L)
           body == Password \o Username \o L.signinAT \o L.initialState IN
       \E r \in AuthenticationResponses(L.v) :
        LET sent == Append(hops, Req(5, "POST", url, body, r)) IN
        IF ~StatusOK(r.status) THEN LoginFail("HTTPError", sent)
        ELSE IF ~r.isJson THEN LoginFail("JSONDecodeError", sent)
        ELSE LoginGoto("hop6", [L EXCEPT !.authnToken = r.authnToken], sent)

\* __submit_form: POST the authnToken to the session URL, parse the login form
Hop6 ==
    /\ UNCHANGED dvars
    /\ UNCHANGED xvars
    /\ loginPc = "hop6"
    /\ LET session_url == urljoin(L.baseUri, SessionPath) IN
       IF ~HasScheme(session_url) THEN LoginFail("MissingSchema", hops)
       ELSE \E r \in FormResponses(LoginFormUrl(L.v), <<"login", L.v>>) :
        LET sent == Append(hops, Req(6, "POST", session_url, L.authnToken, r)) IN
        IF ~StatusOK(r.status) THEN LoginFail("HTTPError", sent)
        ELSE LoginGoto("hop7", [L EXCEPT !.login_url = r.form_url,
                                         !.login_data = r.form_data], sent)

\* __submit_form: POST the login form, parse the SAML form
Hop7 ==
    /\ UNCHANGED dvars
    /\ UNCHANGED xvars
    /\ loginPc = "hop7"
    /\ IF ~HasScheme(L.login_url) THEN LoginFail("MissingSchema", hops)
       ELSE \E r \in FormResponses(SamlFormUrl(L.v), <<"SAMLResponse", L.v>>) :
        LET sent == Append(hops, Req(7, "POST", L.login_url, L.login_data, r)) IN
        IF ~StatusOK(r.status) THEN LoginFail("HTTPError", sent)
        ELSE LoginGoto("hop8", [L EXCEPT !.saml_url = r.form_url,
                                         !.saml_data = r.form_data], sent)

\* __submit_form: POST the SAML form; the user token is the tail of its Location
Hop8 ==
    /\ UNCHANGED dvars
    /\ UNCHANGED xvars
    /\ loginPc = "hop8"
    /\ IF ~HasScheme(L.saml_url) THEN LoginFail("MissingSchema", hops)
       ELSE \E r \in SamlResponses(L.v) :
        LET sent == Append(hops, Req(8, "POST", L.saml_url, L.saml_data, r))
            parts == rsplit(r.Location) IN
        IF ~StatusOK(r.status) THEN LoginFail("HTTPError", sent)
        ELSE IF r.Location = NoneStr THEN LoginFail("AttributeError", sent)
        ELSE IF Len(parts) # 2 THEN LoginFail("ValueError", sent)
        ELSE LoginGoto("hop9", [L EXCEPT !.usertoken = parts[2]], sent)

\* _login: exchange the user token; only now is the bundle assigned
Hop9 ==
    /\ UNCHANGED dvars
    /\ UNCHANGED xvars
    /\ loginPc = "hop9"
    /\ \E r \in TokenResponses(loginCount, now) :
        LET body == L.usertoken \o <<"authorization_code", "sso">>
            sent == Append(hops, Req(9, "POST", AuthTokenUrl, body, r)) IN
        IF ~StatusOK(r.status) THEN LoginFail("HTTPError", sent)
        ELSE IF ~r.isJson THEN LoginFail("JSONDecodeError", sent)
        ELSE /\ info' = StoreBundle(info, r.json)
             /\ issued' = r.json
             /\ loginPc' = "idle"
             /\ loginResult' = LoginOK
             /\ hops' = sent
             /\ L' = InitL
             /\ IF coord = "login"
                THEN coord' = "usage" /\ op' = StartedOp("get_latest_usage")
                ELSE UNCHANGED <<coord, op>>
             /\ UNCHANGED <<now, loginCount, infoAtLogin, lastReq, expiredRead>>

\* ------------------------------------------------- authenticated requests
AuthStatuses == {200, 401, 500}

PathOf(pc) ==
    CASE pc = "accounts" -> "rest/account/list"
      [] pc = "holders"  -> "rest/account/list/some"
      [] pc = "bills"    -> "rest/billing/comparison"
      [] OTHER           -> "rest/usage/month"

Return(o) == [o EXCEPT !.pc = "idle", !.phase = "payload", !.result = "returned"]
\* faulty variant: a failed request ends the call with what it has gathered
RaiseSwallowed(o, exc) == Return(o)
\* an exception leaves request_payload and the call that made the request
Raise(o, exc) == [o EXCEPT !.pc = "idle", !.phase = "payload", !.result = exc]

\* get_meters returns; get_latest_usage goes on with one usage request per meter
FinishMeters(o) ==
    IF o.kind = "get_meters" \/ o.meters = {} THEN Return(o)
    ELSE [o EXCEPT !.pc = "usage", !.phase = "payload", !.usageLeft = o.meters]

NextGroup(o) ==
    IF o.groupsLeft > 1
    THEN [o EXCEPT !.groupsLeft = @ - 1, !.pc = "holders", !.phase = "payload"]
    ELSE FinishMeters([o EXCEPT !.groupsLeft = 0])

AfterAccounts(o, g) ==
    IF g > 0 THEN [o EXCEPT !.groupsLeft = g, !.pc = "holders", !.phase = "payload"]
    ELSE FinishMeters(o)

AfterHolders(o, h) ==
    IF h > 0 THEN [o EXCEPT !.holdersLeft = h, !.pc = "bills", !.phase = "payload"]
    ELSE NextGroup(o)

AfterBills(o, ms) ==
    LET o1 == [o EXCEPT !.meters = @ \cup ms, !.holdersLeft = @ - 1, !.phase = "payload"] IN
    IF o1.holdersLeft > 0 THEN o1 ELSE NextGroup(o1)

AfterUsage(o) ==
    LET m == CHOOSE x \in o.usageLeft : \A y \in o.usageLeft : x <= y
        o1 == [o EXCEPT !.usageLeft = @ \ {m}, !.phase = "payload"] IN
    IF o1.usageLeft = {} THEN Return(o1) ELSE o1

\* the ways the provider can answer the request sent at position pc
Answered(o) ==
    CASE o.pc = "accounts" -> {AfterAccounts(o, g) : g \in 0..MaxGroups}
      [] o.pc = "holders"  -> {AfterHolders(o, h) : h \in 0..MaxHolders}
      [] o.pc = "bills"    -> {AfterBills(o, ms) : ms \in SUBSET MeterIds}
      [] OTHER             -> {AfterUsage(o)}

OpStep(o) ==
    /\ op' = o
    /\ coord' = IF o.pc = "idle" /\ coord = "usage" THEN "idle" ELSE coord
    /\ UNCHANGED <<now, info, issued, loginCount, loginPc, L, hops, loginResult,
                   infoAtLogin, expiredRead>>

\* the host calls get_meters or get_latest_usage while nothing else runs
StartOp ==
    /\ UNCHANGED dvars
    /\ UNCHANGED xvars
    /\ op.pc = "idle"
    /\ coord = "idle"
    /\ loginPc = "idle"
    /\ \E kind \in {"get_meters", "get_latest_usage"} : op' = StartedOp(kind)
    /\ lastReq' = NoReq
    /\ hops' = <<>>
    /\ loginResult' = NoResult
    /\ infoAtLogin' = info
    /\ UNCHANGED <<now, info, issued, loginCount, loginPc, L, expiredRead, coord>>

\* the host calls get_meters from a second executor job while a login runs
StartOpOverlapping ==
    /\ UNCHANGED dvars
    /\ UNCHANGED xvars
    /\ op.pc = "idle"
    /\ coord = "idle"
    /\ loginPc # "idle"
    /\ op' = StartedOp("get_meters")
    /\ UNCHANGED <<now, info, issued, loginCount, loginPc, L, hops, loginResult,
                   infoAtLogin, lastReq, expiredRead, coord>>

\* get_accounts .. get_daily_usage build the payload: user_customer_id, username
OpPayload ==
    /\ UNCHANGED dvars
    /\ UNCHANGED xvars
    /\ op.pc # "idle"
    /\ op.phase = "payload"
    /\ UNCHANGED lastReq
    /\ IF AuthRequired(info) THEN OpStep(Raise(op, "AuthenticationRequired"))
       ELSE OpStep([op EXCEPT !.phase = "send",
                              !.payload = [customerId |-> user_customer_id(info),
                                           csrId |-> username(info)]])

\* request_payload: read _access_token, POST, raise_for_status
OpSend ==
    /\ UNCHANGED dvars
    /\ UNCHANGED xvars
    /\ op.pc # "idle"
    /\ op.phase = "send"
    /\ IF AuthRequired(info) THEN OpStep(Raise(op, "AuthenticationRequired")) /\ UNCHANGED lastReq
       ELSE \E status \in AuthStatuses :
        LET o == [op EXCEPT !.attempts = 1] IN
        /\ lastReq' = [path |-> PathOf(op.pc), customerId |-> op.payload.customerId,
                       csrId |-> op.payload.csrId, token |-> access_token(info),
                       expired |-> is_token_expired(info, now) = "True",
                       status |-> status]
        /\ IF ~StatusOK(status) THEN OpStep(Raise(o, "HTTPError"))
           ELSE \E o2 \in Answered(o) : OpStep(o2)

\* ------------------------------------------- sensor.py: async_update_data
UpdateData ==
    /\ UNCHANGED dvars
    /\ UNCHANGED xvars
    /\ coord = "idle"
    /\ loginPc = "idle"
    /\ op.pc = "idle"
    /\ LET e == is_token_expired(info, now) IN
       /\ expiredRead' = e
       /\ IF e = "True"
          THEN /\ loginCount < MaxLogins
               /\ BeginLogin(SeattleAuthenticationUrl)
               /\ coord' = "login"
               /\ op' = OpIdle
               /\ lastReq' = NoReq
               /\ UNCHANGED <<now, info, issued>>
          ELSE IF e = "False"
          THEN /\ op' = StartedOp("get_latest_usage")
               /\ coord' = "usage"
               /\ lastReq' = NoReq
               /\ hops' = <<>>
               /\ loginResult' = NoResult
               /\ infoAtLogin' = info
               /\ UNCHANGED <<now, info, issued, loginCount, loginPc, L>>
          ELSE /\ expiredRead # e
               /\ UNCHANGED <<now, info, issued, loginCount, loginPc, L, hops,
                              loginResult, infoAtLogin, op, lastReq, coord>>

Next ==
    \/ Tick
    \/ ReadExpired
    \/ StartLogin
    \/ Hop1 \/ Hop2 \/ Hop3 \/ Hop4 \/ Hop5 \/ Hop6 \/ Hop7 \/ Hop8 \/ Hop9
    \/ StartOp
    \/ OpPayload
    \/ OpSend
    \/ UpdateData

Spec == Init /\ [][Next]_vars

\* the same client used from overlapping executor jobs; what the passing of
\* time does is left to Spec, here the steps of the two jobs interleave
NextOverlap ==
    \/ StartLogin
    \/ Hop1 \/ Hop2 \/ Hop3 \/ Hop4 \/ Hop5 \/ Hop6 \/ Hop7 \/ Hop8 \/ Hop9
    \/ StartLoginOverlapping
    \/ StartOpOverlapping
    \/ OpPayload
    \/ OpSend

SpecOverlap == Init /\ [][NextOverlap]_vars

\* =================================================== usage history and cost
\* kWh readings and rate coefficients are floats in the program; here they are
\* whole numbers of one unit.  A date is its day of a 365-day year, a datetime
\* is day * TicksPerDay + the instant of the day, instant 0 being 00:00 and
\* instant TicksPerDay - 1 being 23:59:59.999999.  The text of a number is
\* the sequence of its decimal digits.
MaxHistory  == 2    \* entries in the "history" list of a usage answer
MaxKWh      == 17   \* largest kWh reading of one day
MaxRate     == 2    \* largest value of a rate coefficient
TicksPerDay == 2    \* instants told apart within one day

Rates(b, f, s, m) == [base |-> b, first_block |-> f, second_block |-> s, misc_per_kWh |-> m]
MeterUsage(d, k, c) == [date |-> d, usage_kWh |-> k, cost |-> c]

\* days of the year before the first of each month
CumDays == <<0, 31, 59, 90, 120, 151, 181, 212, 243, 273, 304, 334>>

\* datetime.combine(date, time)
combine(d, tick) == d * TicksPerDay + tick
\* datetime.max.time()
max_time == TicksPerDay - 1
\* datetime.date()
dateOf(dt) == dt \div TicksPerDay
\* datetime.month
month(dt) ==
    CHOOSE m \in 1..12 : /\ CumDays[m] < dateOf(dt)
                         /\ m = 12 \/ dateOf(dt) <= CumDays[m + 1]

\* the provider's "%Y-%m-%d" text of a day, as <<month, day of month>>
DateText(d) == LET m == month(combine(d, 0)) IN <<m, d - CumDays[m]>>
\* datetime.strptime(text, "%Y-%m-%d"): that day at 00:00
strptime(text) == combine(CumDays[text[1]] + text[2], 0)

DigitChars == <<"0", "1", "2", "3", "4", "5", "6", "7", "8", "9">>
\* str(n) of a non-negative int
RECURSIVE str(_)
str(n) == IF n < 10 THEN <<DigitChars[n + 1]>>
          ELSE str(n \div 10) \o <<DigitChars[(n % 10) + 1]>>
\* float(text) of decimal digits
RECURSIVE float(_)
float(text) ==
    LET last == CHOOSE i \in 0..9 : DigitChars[i + 1] = text[Len(text)] IN
    IF Len(text) = 1 THEN last
    ELSE float(SubSeq(text, 1, Len(text) - 1)) * 10 + last

\* faulty variant: September is not summer (< for <=)
is_summerUntilAugust(u) == 4 <= month(u.date) /\ month(u.date) < 9
\* _estimate_usage_cost, line 400
is_summer(u) == 4 <= month(u.date) /\ month(u.date) <= 9

first_block_size(u) == IF is_summer(u) THEN 10 ELSE 16

\* faulty variant: max for min
first_block_usageMax(u) ==
    IF u.usage_kWh > first_block_size(u) THEN u.usage_kWh ELSE first_block_size(u)
\* min(usage.usage_kWh, first_block_size)
first_block_usage(u) ==
    IF u.usage_kWh < first_block_size(u) THEN u.usage_kWh ELSE first_block_size(u)

\* max(0.0, usage.usage_kWh - first_block_size)
second_block_usage(u) ==
    IF u.usage_kWh - first_block_size(u) > 0 THEN u.usage_kWh - first_block_size(u) ELSE 0

\* faulty variant: the new total is added to the cost the usage holds
totalAccumulating(r, u) ==
    u.cost + r.base + r.first_block * first_block_usage(u)
    + r.second_block * second_block_usage(u) + r.misc_per_kWh * u.usage_kWh
\* lines 404-407: base, the two block costs and the per-kWh cost, summed
total(r, u) ==
    r.base + r.first_block * first_block_usage(u)
    + r.second_block * second_block_usage(u) + r.misc_per_kWh * u.usage_kWh

\* SeattleUtilityClient._estimate_usage_cost: what it returns; when it
\* returns the usage it has set the cost on that same object
_estimate_usage_cost(r, u) ==
    IF r = NoRates THEN IntZero
    ELSE [u EXCEPT !.cost = total(r, u)]

\* the sequences over S of at most n elements
SeqsUpTo(S, n) == UNION {[1..k -> S] : k \in 0..n}

\* ---------------------------------------- costing one usage: the inputs
RateChoices == [base : 0..MaxRate, first_block : 0..MaxRate,
                second_block : 0..MaxRate, misc_per_kWh : 0..MaxRate]
\* one day of each month, any reading, with or without a cost already stored
Usages == {MeterUsage(combine(CumDays[m] + 1, 0), k, c) :
             m \in 1..12, k \in 0..MaxKWh, c \in {0, MaxRate}}

InitCost ==
    /\ ClientHolding(NoInfo)
    /\ TextIdle
    /\ rates \in RateChoices \cup {NoRates}
    /\ usage \in Usages
    /\ today = 1
    /\ history = <<>>
    /\ result = NoCall
    /\ trav = TravIdle

\* the caller applies _estimate_usage_cost to the usage, up to twice
EstimateUsageCost ==
    /\ result.n < 2
    /\ LET ret == _estimate_usage_cost(rates, usage) IN
       /\ result' = [NoCall EXCEPT !.call = "_estimate_usage_cost", !.value = ret,
                                   !.n = result.n + 1]
       /\ usage' = IF "date" \in DOMAIN ret THEN ret ELSE usage
    /\ UNCHANGED <<now, info, issued, loginCount, loginPc, L, hops, loginResult,
                   infoAtLogin, op, lastReq, expiredRead, coord>>
    /\ UNCHANGED xvars
    /\ UNCHANGED <<rates, today, history, trav>>

NextCost == EstimateUsageCost

SpecCost == InitCost /\ [][NextCost]_vars

\* ------------------------------------------ get_daily_usage and the latest
\* faulty variant: the end of the interval is excluded (< for <=)
get_daily_usageOpenEnd(r, hist, start, end) ==
    LET costed == [i \in 1..Len(hist) |->
                     _estimate_usage_cost(r, MeterUsage(strptime(hist[i].chargeDateRaw),
                                                        float(hist[i].billedConsumption), 0))]
    IN IF \E i \in 1..Len(costed) : "date" \notin DOMAIN costed[i]
       THEN [raised |-> "AttributeError", value |-> <<>>]
       ELSE [raised |-> "none",
             value |-> SelectSeq(costed, LAMBDA u : start <= u.date /\ u.date < end)]
\* SeattleUtilityClient.get_daily_usage applied to the provider's history: each
\* entry becomes a MeterUsage, is costed, and the filter reads .date of what
\* costing returned
get_daily_usage(r, hist, start, end) ==
    LET costed == [i \in 1..Len(hist) |->
                     _estimate_usage_cost(r, MeterUsage(strptime(hist[i].chargeDateRaw),
                                                        float(hist[i].billedConsumption), 0))]
    IN IF \E i \in 1..Len(costed) : "date" \notin DOMAIN costed[i]
       THEN [raised |-> "AttributeError", value |-> <<>>]
       ELSE [raised |-> "none",
             value |-> SelectSeq(costed, LAMBDA u : start <= u.date /\ u.date <= end)]

\* faulty variant: the first qualifying record is returned
get_latest_meter_usageFirst(r, hist, t) ==
    LET end == combine(t, max_time)
        yesterday == combine(t - 1, 0)
        daily_usage == get_daily_usage(r, hist, yesterday, end)
        qualifying == SelectSeq(daily_usage.value,
                                LAMBDA u : u.usage_kWh # 0 /\ yesterday <= u.date /\ u.date <= end)
    IN IF daily_usage.raised # "none" THEN [raised |-> daily_usage.raised, value |-> NoUsage]
       ELSE [raised |-> "none",
             value |-> IF qualifying = <<>> THEN NoUsage ELSE qualifying[1]]
\* SeattleUtilityClient.get_latest_meter_usage on the day t
get_latest_meter_usage(r, hist, t) ==
    LET end == combine(t, max_time)
        yesterday == combine(t - 1, 0)
        daily_usage == get_daily_usage(r, hist, yesterday, end)
        qualifying == SelectSeq(daily_usage.value,
                                LAMBDA u : u.usage_kWh # 0 /\ yesterday <= u.date /\ u.date <= end)
    IN IF daily_usage.raised # "none" THEN [raised |-> daily_usage.raised, value |-> NoUsage]
       ELSE [raised |-> "none",
             value |-> IF qualifying = <<>> THEN NoUsage ELSE qualifying[Len(qualifying)]]

\* the first of April and the first of October: yesterday is in the other season
Todays == {CumDays[4] + 1, CumDays[10] + 1}
HistoryKWh == {0, MaxKWh}
\* the days a history entry is dated: the day before yesterday .. today
HistoryDays(t) == (t - 2)..t
HistoryEntries(t) == {[chargeDateRaw |-> DateText(d), billedConsumption |-> str(k)] :
                        d \in HistoryDays(t), k \in HistoryKWh}
Histories(t) == SeqsUpTo(HistoryEntries(t), MaxHistory)
Instants(t) == {combine(d, tick) : d \in HistoryDays(t), tick \in 0..max_time}

\* a client without rates, with the default Rates() and with a full schedule
UsageRates == {NoRates, Rates(0, 0, 0, 0), Rates(MaxRate, 1, MaxRate, 1)}

\* the bundle a completed login has stored
LoggedIn == [access_token |-> 1, created |-> 0, expires_in |-> MaxExpires,
             user |-> [customerId |-> 1, userName |-> 1]]

InitUsage ==
    /\ ClientHolding(LoggedIn)
    /\ TextIdle
    /\ rates \in UsageRates
    /\ today \in Todays
    /\ history \in Histories(today)
    /\ usage = NoUsage
    /\ result = NoCall
    /\ trav = TravIdle

\* the caller asks for the usage of [start, end]; the provider answers with history
GetDailyUsage ==
    /\ result.call = "none"
    /\ \E start \in Instants(today), end \in Instants(today) :
         LET ret == get_daily_usage(rates, history, start, end) IN
         result' = [NoCall EXCEPT !.call = "get_daily_usage", !.raised = ret.raised,
                                  !.value = ret.value, !.start = start, !.end = end]
    /\ UNCHANGED <<now, info, issued, loginCount, loginPc, L, hops, loginResult,
                   infoAtLogin, op, lastReq, expiredRead, coord>>
    /\ UNCHANGED xvars
    /\ UNCHANGED <<rates, today, history, usage, trav>>

\* the caller asks for the latest usage; the provider answers with history
GetLatestMeterUsage ==
    /\ result.call = "none"
    /\ LET ret == get_latest_meter_usage(rates, history, today) IN
       result' = [NoCall EXCEPT !.call = "get_latest_meter_usage",
                                !.raised = ret.raised, !.value = ret.value]
    /\ UNCHANGED <<now, info, issued, loginCount, loginPc, L, hops, loginResult,
                   infoAtLogin, op, lastReq, expiredRead, coord>>
    /\ UNCHANGED xvars
    /\ UNCHANGED <<rates, today, history, usage, trav>>

NextUsage ==
    \/ GetDailyUsage
    \/ GetLatestMeterUsage

SpecUsage == InitUsage /\ [][NextUsage]_vars

\* ============================================ get_meters, get_latest_usage
MaxDirGroups  == 2    \* account groups of the account list that is traversed
MaxBills      == 1    \* bills in a bill-comparison answer
MaxBillMeters == 1    \* meter ids one bill lists
\* the meter ids that bills mention
BillMeterIds == {"m1", "m2"}

\* key in dict
InDict(k, d) == k \in DOMAIN d.at
\* dict.update({k: v}): a new key goes last, a held key keeps its place
update(d, k, v) ==
    [keys |-> IF InDict(k, d) THEN d.keys ELSE Append(d.keys, k),
     at |-> [x \in DOMAIN d.at \cup {k} |-> IF x = k THEN v ELSE d.at[x]]]

Account(holder_account) ==
    [account_number |-> holder_account.accountNumber,
     person_id |-> holder_account.personId,
     service_address |-> holder_account.serviceAddress]
Bill(bill) == [service_id |-> bill.serviceId, meters |-> bill.meters]
Meter(id, account, bill) == [id |-> id, account |-> account, bill |-> bill]

\* faulty variant: a meter id met again replaces the Meter held
AlreadyDiscoveredNever(meter_id, meters) == FALSE
\* line 366: meter_id in meters
AlreadyDiscovered(meter_id, meters) == InDict(meter_id, meters)

\* lines 364-373: for meter_id in bill.meters, from the k-th on
RECURSIVE MetersOfBill(_, _, _, _)
MetersOfBill(meters, account, bill, k) ==
    IF k > Len(bill.meters) THEN meters
    ELSE LET meter_id == bill.meters[k] IN
         IF AlreadyDiscovered(meter_id, meters)
         THEN MetersOfBill(meters, account, bill, k + 1)
         ELSE MetersOfBill(update(meters, meter_id, Meter(meter_id, account, bill)),
                           account, bill, k + 1)

\* lines 361-373: for bill in holder_bills.get("billList"), from the b-th on
RECURSIVE MetersOfBills(_, _, _, _)
MetersOfBills(meters, account, billList, b) ==
    IF b > Len(billList) THEN meters
    ELSE MetersOfBills(MetersOfBill(meters, account, Bill(billList[b]), 1),
                       account, billList, b + 1)

\* the requests, by what the claims read of them
get_accounts(i) ==
    [NoDataReq EXCEPT !.path = "rest/account/list", !.customerId = user_customer_id(i)]
\* faulty variant: the page after the one asked for
get_account_holdersNextPage(i, company_code, page) ==
    [NoDataReq EXCEPT !.path = "rest/account/list/some",
                      !.customerId = user_customer_id(i),
                      !.companyCode = company_code, !.page = str(page + 1)]
get_account_holders(i, company_code, page) ==
    [NoDataReq EXCEPT !.path = "rest/account/list/some",
                      !.customerId = user_customer_id(i),
                      !.companyCode = company_code, !.page = str(page)]
get_bills(i, company_code, account) ==
    [NoDataReq EXCEPT !.path = "rest/billing/comparison",
                      !.customerId = user_customer_id(i),
                      !.companyCode = company_code,
                      !.accountNumber = account.account_number]
UsageRequest(i, meter) ==
    [NoDataReq EXCEPT !.path = "rest/usage/month",
                      !.customerId = user_customer_id(i),
                      !.accountNumber = meter.account.account_number]

\* the provider's answers
AccountGroups == {[g \in 1..n |-> [name |-> g]] : n \in 0..MaxDirGroups}
HolderAccounts(company_code) ==
    {[h \in 1..n |-> [accountNumber |-> <<company_code, h>>,
                      personId |-> <<"person", company_code, h>>,
                      serviceAddress |-> <<"address", company_code, h>>,
                      currentBillDate |-> <<"billed", company_code, h>>]] :
       n \in 0..MaxHolders}
BillLists(account_number) ==
    {[b \in 1..Len(ms) |-> [serviceId |-> account_number \o <<b>>, meters |-> ms[b]]] :
       ms \in SeqsUpTo(SeqsUpTo(BillMeterIds, MaxBillMeters), MaxBills)}
\* a usage answer of at most one entry
UsageAnswers(t) == {<<>>} \cup {<<e>> : e \in HistoryEntries(t)}

\* which bill was met first for each meter id, kept beside the traversal
IdsIn(billList) ==
    UNION {{billList[b].meters[k] : k \in 1..Len(billList[b].meters)} :
             b \in 1..Len(billList)}
Lists(bill, id) == \E k \in 1..Len(bill.meters) : bill.meters[k] = id
FirstBillWith(billList, id) ==
    CHOOSE b \in 1..Len(billList) :
        Lists(billList[b], id) /\ \A c \in 1..(b - 1) : ~Lists(billList[c], id)
FirstMet(first, account, billList) ==
    [id \in DOMAIN first \cup IdsIn(billList) |->
        IF id \in DOMAIN first THEN first[id]
        ELSE [account |-> account, bill |-> Bill(billList[FirstBillWith(billList, id)])]]
MetAgain(first, billList) ==
    \E id \in IdsIn(billList) :
        \/ id \in DOMAIN first
        \/ Cardinality({b \in 1..Len(billList) : Lists(billList[b], id)}) >= 2

\* line 374 and line 390: get_meters returns; get_latest_usage goes on with
\* one usage request per meter, in the order of the dict
MetersReturned(t) ==
    IF t.kind = "get_meters" \/ t.meters.keys = <<>> THEN [t EXCEPT !.pc = "idle"]
    ELSE [t EXCEPT !.pc = "usage", !.usageLeft = t.meters.keys]

\* the next round of the loop over the account groups
NextGroupOf(t) ==
    IF Len(t.groups) <= 1 THEN MetersReturned([t EXCEPT !.groups = <<>>])
    ELSE [t EXCEPT !.groups = Tail(t.groups), !.pc = "holders"]

\* the next round of the loop over the holder accounts
NextHolderOf(t) ==
    IF Len(t.holders) <= 1 THEN NextGroupOf([t EXCEPT !.holders = <<>>])
    ELSE [t EXCEPT !.holders = Tail(t.holders), !.pc = "bills"]

\* what the call has returned once the traversal is over
ResultOf(t) ==
    IF t.pc # "idle" THEN result
    ELSE [result EXCEPT !.raised = "none",
                        !.value = IF t.kind = "get_meters" THEN t.meters ELSE t.latest]

\* faulty variant: a meter without a latest usage gets no entry
LatestEntryOnlyRecords(latest, meter_id, value) ==
    IF value = NoUsage THEN latest ELSE update(latest, meter_id, value)
\* line 391: meter_id: self.get_latest_meter_usage(meter=meter)
LatestEntry(latest, meter_id, value) == update(latest, meter_id, value)

InitMeters ==
    /\ ClientHolding(LoggedIn)
    /\ TextIdle
    /\ rates = Rates(MaxRate, 1, MaxRate, 1)
    /\ today = CumDays[4] + 1
    /\ history = <<>>
    /\ usage = NoUsage
    /\ result = NoCall
    /\ trav = TravIdle

TravStep(t) ==
    /\ trav' = t
    /\ result' = ResultOf(t)
    /\ UNCHANGED <<now, info, issued, loginCount, loginPc, L, hops, loginResult,
                   infoAtLogin, op, lastReq, expiredRead, coord>>
    /\ UNCHANGED xvars
    /\ UNCHANGED <<rates, today, history, usage>>

\* the host calls get_meters or get_latest_usage
StartTraversal ==
    /\ trav.pc = "idle"
    /\ result.call = "none"
    /\ \E kind \in {"get_meters", "get_latest_usage"} :
         /\ trav' = [TravIdle EXCEPT !.kind = kind, !.pc = "accounts"]
         /\ result' = [NoCall EXCEPT !.call = kind, !.raised = "running"]
    /\ UNCHANGED <<now, info, issued, loginCount, loginPc, L, hops, loginResult,
                   infoAtLogin, op, lastReq, expiredRead, coord>>
    /\ UNCHANGED xvars
    /\ UNCHANGED <<rates, today, history, usage>>

\* line 343: accounts = self.get_accounts()
GetAccounts ==
    /\ trav.pc = "accounts"
    /\ \E groups \in AccountGroups :
         LET t == [trav EXCEPT !.lastReq = get_accounts(info), !.groups = groups,
                               !.groupsSeen = Len(groups)]
         IN TravStep(IF groups = <<>> THEN MetersReturned(t)
                     ELSE [t EXCEPT !.pc = "holders"])

\* lines 345-347: one account-holders request for the group
GetAccountHolders ==
    /\ trav.pc = "holders"
    /\ LET company_code == Head(trav.groups).name IN
       \E holders \in HolderAccounts(company_code), more \in BOOLEAN :
         LET t == [trav EXCEPT !.lastReq = get_account_holders(info, company_code, 1),
                               !.holdersReqs = @ + 1, !.holders = holders,
                               !.holdersSeen = @ + Len(holders),
                               !.morePages = more, !.again = FALSE]
         IN TravStep(IF holders = <<>> THEN NextGroupOf(t)
                     ELSE [t EXCEPT !.pc = "bills"])

\* lines 349-373: the bills of one holder account and the meters they list
GetBills ==
    /\ trav.pc = "bills"
    /\ LET company_code == Head(trav.groups).name
           account == Account(Head(trav.holders))
       IN \E billList \in BillLists(account.account_number) :
            TravStep(NextHolderOf(
              [trav EXCEPT !.lastReq = get_bills(info, company_code, account),
                           !.billsReqs = @ + 1,
                           !.meters = MetersOfBills(@, account, billList, 1),
                           !.first = FirstMet(@, account, billList),
                           !.again = MetAgain(trav.first, billList),
                           !.morePages = FALSE]))

\* line 391: the latest usage of the next meter of the dict; what was counted
\* of the get_meters call that has returned is dropped
GetMeterUsage ==
    /\ trav.pc = "usage"
    /\ LET meter_id == Head(trav.usageLeft)
           t == [trav EXCEPT !.lastReq = UsageRequest(info, trav.meters.at[meter_id]),
                             !.usageLeft = Tail(@), !.again = FALSE,
                             !.holdersReqs = 0, !.billsReqs = 0,
                             !.groupsSeen = 0, !.holdersSeen = 0]
       IN \E hist \in UsageAnswers(today) :
            LET ret == get_latest_meter_usage(rates, hist, today) IN
            IF ret.raised # "none"
            THEN /\ trav' = [t EXCEPT !.pc = "idle"]
                 /\ result' = [result EXCEPT !.raised = ret.raised]
                 /\ UNCHANGED <<now, info, issued, loginCount, loginPc, L, hops,
                                loginResult, infoAtLogin, op, lastReq, expiredRead,
                                coord>>
                 /\ UNCHANGED xvars
                 /\ UNCHANGED <<rates, today, history, usage>>
            ELSE LET t2 == [t EXCEPT !.latest = LatestEntry(@, meter_id, ret.value)] IN
                 TravStep(IF t2.usageLeft = <<>> THEN [t2 EXCEPT !.pc = "idle"] ELSE t2)

NextMeters ==
    \/ StartTraversal
    \/ GetAccounts
    \/ GetAccountHolders
    \/ GetBills
    \/ GetMeterUsage

SpecMeters == InitMeters /\ [][NextMeters]_vars

\* ==================================================== HTMLOracleFormParser
\* A document is the sequence of its tags as html.parser reports them: a start
\* tag <t ...>, a self-closed tag <t .../> or an end tag </t>, a start tag
\* with its attributes as <<name, value>> pairs in the order written.
MaxTags == 3    \* tags of a document fed to the parser

\* x in attr, attr being the (name, value) tuple
InAttr(x, attr) == attr[1] = x \/ attr[2] = x

\* lines 39-41: for attr in attrs, from the k-th on
RECURSIVE FormAttrs(_, _, _)
FormAttrs(p, attrs, k) ==
    IF k > Len(attrs) THEN p
    ELSE FormAttrs(IF attrs[k][1] = <<"action">>
                   THEN [p EXCEPT !.form_url = attrs[k][2]] ELSE p,
                   attrs, k + 1)

\* lines 44-48: for attr in attrs, from the k-th on
RECURSIVE InputAttrs(_, _, _)
InputAttrs(p, attrs, k) ==
    IF k > Len(attrs) THEN p
    ELSE LET attr == attrs[k]
             p1 == IF InAttr(<<"name">>, attr) THEN [p EXCEPT !.name = attr[2]] ELSE p
             p2 == IF InAttr(<<"value">>, attr) THEN [p1 EXCEPT !.value = attr[2]] ELSE p1
         IN InputAttrs(p2, attrs, k + 1)

handle_starttag(p, tag, attrs) ==
    LET p1 == IF tag = "form" THEN FormAttrs(p, attrs, 1) ELSE p IN
    IF tag = "input" THEN InputAttrs(p1, attrs, 1) ELSE p1

handle_endtag(p, tag) ==
    IF tag # "input" THEN p
    ELSE [p EXCEPT !.form_data = update(@, p.name, p.value),
                   !.name = NoneStr, !.value = NoneStr]

\* HTMLParser.handle_startendtag, not overridden: both handlers in turn
handle_startendtag(p, tag, attrs) == handle_endtag(handle_starttag(p, tag, attrs), tag)

\* HTMLParser.feed: one handler call per tag, from the k-th tag on
RECURSIVE feed(_, _, _)
feed(p, tags, k) ==
    IF k > Len(tags) THEN p
    ELSE LET t == tags[k] IN
         feed(CASE t.kind = "start" -> handle_starttag(p, t.tag, t.attrs)
                [] t.kind = "startend" -> handle_startendtag(p, t.tag, t.attrs)
                [] OTHER -> handle_endtag(p, t.tag),
              tags, k + 1)

form_info(p) == <<p.form_url, p.form_data>>

\* the documents fed
FormTags == {[kind |-> "start", tag |-> "form", attrs |-> a] :
               a \in {<<>>, <<<<<<"action">>, <<"", "x">>>>>>,
                      <<<<<<"action">>, <<"", "y">>>>>>}}
InputAttrChoices ==
    {<<>>,
     <<<<<<"name">>, <<"a">>>>>>,
     <<<<<<"value">>, <<"1">>>>>>,
     <<<<<<"name">>, <<"a">>>>, <<<<"value">>, <<"1">>>>>>,
     <<<<<<"name">>, <<"b">>>>, <<<<"value">>, <<"2">>>>>>,
     <<<<<<"name">>, <<"value">>>>>>}
InputTags == {[kind |-> k, tag |-> "input", attrs |-> a] :
                k \in {"start", "startend"}, a \in InputAttrChoices}
EndTags == {[kind |-> "end", tag |-> t, attrs |-> <<>>] : t \in {"form", "input"}}
Documents == SeqsUpTo(FormTags \cup InputTags \cup EndTags, MaxTags)

InitParser ==
    /\ ClientHolding(NoInfo)
    /\ DataIdle
    /\ doc \in Documents
    /\ parser = NewParser
    /\ hass = NoHass
    /\ flow = NoFlow

\* lines 119-120, 160-161: a new parser is fed the text of the response
Feed ==
    /\ parser.fed = 0
    /\ parser' = [feed(parser, doc, 1) EXCEPT !.fed = 1]
    /\ UNCHANGED <<now, info, issued, loginCount, loginPc, L, hops, loginResult,
                   infoAtLogin, op, lastReq, expiredRead, coord>>
    /\ UNCHANGED dvars
    /\ UNCHANGED <<doc, hass, flow>>

\* lines 121, 162: the caller reads the form URL and the form data
FormInfo ==
    /\ parser.fed = 1
    /\ result.call = "none"
    /\ result' = [NoCall EXCEPT !.call = "form_info", !.value = form_info(parser)]
    /\ UNCHANGED <<now, info, issued, loginCount, loginPc, L, hops, loginResult,
                   infoAtLogin, op, lastReq, expiredRead, coord>>
    /\ UNCHANGED <<rates, today, history, usage, trav>>
    /\ UNCHANGED xvars

NextParser ==
    \/ Feed
    \/ FormInfo

SpecParser == InitParser /\ [][NextParser]_vars

\* ======================================================== the identity script
\* The text of the identity response is the sequence of its lines, one call
\* statement a line ("." of the pattern does not cross a line end): the
\* function called, the key literal, the white-space characters between the
\* comma and the value literal, the value literal, and whether ");" ends it.
MaxCalls == 4    \* statements of an identity script

Call(fn, key, gap, value, semi) ==
    [fn |-> fn, key |-> key, gap |-> gap, value |-> value, semi |-> semi]

\* JS_ITEM_RE on one line: setItem\(['"](.+?)['"],\s?['"](.+?)['"]\);
JS_ITEM_RE(c) ==
    /\ c.fn = "setItem"
    /\ c.key # NoneStr
    /\ c.gap <= 1
    /\ c.value # NoneStr
    /\ c.semi

\* JS_ITEM_RE.findall(text): the (key, value) groups of the matches, in order
findall(text) ==
    LET matched == SelectSeq(text, JS_ITEM_RE)
    IN [i \in 1..Len(matched) |-> <<matched[i].key, matched[i].value>>]

\* faulty variant: a key met again keeps the value it has
RECURSIVE dictFirstWins(_, _, _)
dictFirstWins(d, pairs, k) ==
    IF k > Len(pairs) THEN d
    ELSE dictFirstWins(IF InDict(pairs[k][1], d) THEN d
                       ELSE update(d, pairs[k][1], pairs[k][2]), pairs, k + 1)
\* dict(pairs): the pairs are stored in turn, from the k-th on
RECURSIVE dict(_, _, _)
dict(d, pairs, k) ==
    IF k > Len(pairs) THEN d
    ELSE dict(update(d, pairs[k][1], pairs[k][2]), pairs, k + 1)

\* faulty variant: the value of the fourth call is the one parsed
initialStateTextFourth(pairs, identity_data) ==
    IF Len(pairs) >= 4 THEN pairs[4][2] ELSE NoneStr
\* line 131: identity_data.get("initialState")
initialStateText(pairs, identity_data) ==
    IF InDict(<<"initialState">>, identity_data)
    THEN identity_data.at[<<"initialState">>] ELSE NoneStr

\* lines 130-132 on the text of the identity response
identity_data_of(text) ==
    LET pairs == findall(text)
        identity_data == dict(EmptyDict, pairs, 1)
        state == json_loads(initialStateText(pairs, identity_data))
    IN IF state.raised # "none" THEN [raised |-> state.raised, value |-> EmptyDict]
       ELSE [raised |-> "none",
             value |-> update(identity_data, <<"initialState">>, state.value)]

\* the scripts: calls that match under four other keys and under initialState,
\* with a plain and with a JSON value, and calls the pattern does not match
ScriptKeys == {<<"k1">>, <<"k2">>, <<"k3">>, <<"k4">>, <<"initialState">>}
ScriptValues == {<<"v">>, JsonText("x")}
ScriptCalls ==
    {Call("setItem", k, 0, v, TRUE) : k \in ScriptKeys, v \in ScriptValues}
    \cup {Call("setItem", <<"k1">>, 1, <<"w">>, TRUE),
          Call("setItem", <<"k1">>, 2, <<"w">>, TRUE),
          Call("setItem", <<"k2">>, 0, <<"w">>, FALSE),
          Call("getItem", <<"k3">>, 0, <<"w">>, TRUE)}
Scripts == SeqsUpTo(ScriptCalls, MaxCalls)

InitScript ==
    /\ ClientHolding(NoInfo)
    /\ DataIdle
    /\ doc \in Scripts
    /\ parser = NewParser
    /\ hass = NoHass
    /\ flow = NoFlow

\* lines 130-132: the identity data is read out of the response text
ExtractIdentityData ==
    /\ result.call = "none"
    /\ LET ret == identity_data_of(doc) IN
       result' = [NoCall EXCEPT !.call = "identity_data", !.raised = ret.raised,
                                !.value = ret.value]
    /\ UNCHANGED <<now, info, issued, loginCount, loginPc, L, hops, loginResult,
                   infoAtLogin, op, lastReq, expiredRead, coord>>
    /\ UNCHANGED <<rates, today, history, usage, trav>>
    /\ UNCHANGED xvars

NextScript == ExtractIdentityData

SpecScript == InitScript /\ [][NextScript]_vars

\* ============================================== sensor.py: the entities
MaxRefreshes == 2    \* refreshes of the coordinator after the set-up

\* the meter ids get_meters and get_latest_usage answer with
SensorMeterIds == {"m1"}
\* the list of the meters get_meters returns at line 71
MeterLists == {<<>>, <<"m1">>}

\* f"{x:.2f}" of a whole number
Format2f(x) == str(x) \o <<".", "0", "0">>

\* the usage records of one meter, and the dicts get_latest_usage returns
UsageRecords == {MeterUsage(combine(d, 0), k, c) :
                   d \in {1, 2}, k \in {0, MaxKWh}, c \in {0, MaxRate}}
UsageDicts == {EmptyDict}
              \cup {update(EmptyDict, id, r) :
                      id \in SensorMeterIds, r \in UsageRecords \cup {NoUsage}}
\* what async_update_data does: it returns a dict or raises UpdateFailed
UpdateOutcomes == {[ok |-> FALSE, data |-> EmptyDict]}
                  \cup {[ok |-> TRUE, data |-> d] : d \in UsageDicts}

\* bool(coordinator.data): neither None nor an empty dict
Truthy(data) == "keys" \in DOMAIN data /\ data.keys # <<>>
\* coordinator.data.get(meter.id, None)
DataGet(data, id) == IF InDict(id, data) THEN data.at[id] ELSE NoUsage

\* SeattleUtilityEnergyEntity.__init__, SeattleUtilityCostEntity.__init__
NewEntity(kind, meter) ==
    [kind |-> kind, meter |-> meter, _state |-> NoUsage, added |-> FALSE,
     written |-> [native_value |-> NoneStr, last_reset |-> NoUsage]]

\* the native_value property of the two entity classes
native_value(e) ==
    IF e._state = NoUsage THEN NoneStr
    ELSE IF e.kind = "energy" THEN Format2f(e._state.usage_kWh)
    ELSE Format2f(e._state.cost)
\* the last_reset property
last_reset(e) == IF e._state = NoUsage THEN NoUsage ELSE [date |-> e._state.date]

\* async_write_ha_state: the state machine is given what the properties return
async_write_ha_state(e) ==
    [e EXCEPT !.written = [native_value |-> native_value(e), last_reset |-> last_reset(e)]]

\* DataUpdateCoordinator.async_refresh with the outcome o of async_update_data
Refreshed(h, o) ==
    [h EXCEPT !.data = IF o.ok THEN o.data ELSE h.data,
              !.last_update_success = o.ok]

\* lines 72-76: an energy entity and a cost entity for each meter
RECURSIVE EntitiesOf(_)
EntitiesOf(meters) ==
    IF meters = <<>> THEN <<>>
    ELSE <<NewEntity("energy", Head(meters)), NewEntity("cost", Head(meters))>>
         \o EntitiesOf(Tail(meters))

InitSensor ==
    /\ ClientHolding(LoggedIn)
    /\ DataIdle
    /\ doc = <<>>
    /\ parser = NewParser
    /\ hass = NoHass
    /\ flow = NoFlow

SensorStep(h) ==
    /\ hass' = h
    /\ UNCHANGED <<now, info, issued, loginCount, loginPc, L, hops, loginResult,
                   infoAtLogin, op, lastReq, expiredRead, coord>>
    /\ UNCHANGED dvars
    /\ UNCHANGED <<doc, parser, flow>>

\* async_setup_entry: the coordinator, its first refresh, get_meters, the entities
AsyncSetupEntry ==
    /\ hass.pc = "none"
    /\ \E o \in UpdateOutcomes, meters \in MeterLists :
         SensorStep([Refreshed(hass, o) EXCEPT !.pc = "running",
                                               !.entities = EntitiesOf(meters)])

\* async_added_to_hass of the two entity classes
AsyncAddedToHass ==
    /\ hass.pc = "running"
    /\ \E i \in 1..Len(hass.entities) :
         /\ ~hass.entities[i].added
         /\ SensorStep([hass EXCEPT
               !.entities[i].added = TRUE,
               !.entities[i]._state = IF Truthy(hass.data)
                                      THEN DataGet(hass.data, hass.entities[i].meter)
                                      ELSE @])

\* a later refresh of the coordinator, which runs while it has listeners: the
\* listener of every entity added is called
Refresh ==
    /\ hass.pc = "running"
    /\ hass.refreshes < MaxRefreshes
    /\ \E i \in 1..Len(hass.entities) : hass.entities[i].added
    /\ \E o \in UpdateOutcomes :
         SensorStep([Refreshed(hass, o) EXCEPT
            !.refreshes = @ + 1,
            !.entities = [i \in 1..Len(hass.entities) |->
                            IF hass.entities[i].added
                            THEN async_write_ha_state(hass.entities[i])
                            ELSE hass.entities[i]]])

NextSensor ==
    \/ AsyncSetupEntry
    \/ AsyncAddedToHass
    \/ Refresh

SpecSensor == InitSensor /\ [][NextSensor]_vars

\* ============================================= config_flow.py: ConfigFlow
\* user_input is None or a dict, a record whose DOMAIN is its key
\* set; a cost is the text of a number of 1/10000 dollar.
DEFAULT_BASE_COST         == 2301
DEFAULT_1ST_BLOCK_COST    == 1132
DEFAULT_2ND_BLOCK_COST    == 1307
DEFAULT_MISC_PER_KWH_COST == 0

\* float(x) of a cost of user_input: a number, or ValueError
IsDecimal(text) ==
    /\ text # <<>>
    /\ \A i \in 1..Len(text) : \E d \in 1..10 : DigitChars[d] = text[i]
FloatOf(x) ==
    IF IsDecimal(x) THEN [raised |-> "none", value |-> float(x)]
    ELSE [raised |-> "ValueError", value |-> 0]

\* lines 40-45: energy_rate, or the ValueError of the first float() that fails
energy_rate_of(user_input) ==
    LET b == FloatOf(Get(user_input, "base_cost", str(DEFAULT_BASE_COST)))
        f == FloatOf(Get(user_input, "first_block_cost", str(DEFAULT_1ST_BLOCK_COST)))
        s == FloatOf(Get(user_input, "second_block_cost", str(DEFAULT_2ND_BLOCK_COST)))
        m == FloatOf(Get(user_input, "misc_per_kWh_cost", str(DEFAULT_MISC_PER_KWH_COST)))
    IN IF \E x \in {b, f, s, m} : x.raised # "none"
       THEN [raised |-> "ValueError", value |-> NoRates]
       ELSE [raised |-> "none", value |-> Rates(b.value, f.value, s.value, m.value)]

\* lines 58-64: the error the form is shown with after the exception exc
errors_of(exc) ==
    CASE exc = "ConnectionRefusedError" -> "invalid_auth"
      [] exc = "ValueError" -> "invalid_account"
      [] OTHER -> "unknown"

\* faulty variant: the entry is created whatever get_meters returned
MetersFoundAlways(meters) == TRUE
\* line 53: if meters
MetersFound(meters) == meters # {}

\* lines 65-67: async_show_form with the errors gathered
async_show_form(errors) == FlowResult("form", "none", errors)

\* what the user submits, and what async_step_import passes on
FullInput == [username |-> Username, password |-> Password, base_cost |-> <<"2">>,
              first_block_cost |-> <<"1">>, second_block_cost |-> <<"2">>,
              misc_per_kWh_cost |-> <<"1">>]
UserInputs ==
    {FullInput,
     [k \in DOMAIN FullInput \ {"misc_per_kWh_cost"} |-> FullInput[k]],
     [k \in {"username", "password"} |-> FullInput[k]],
     [FullInput EXCEPT !.base_cost = <<"x">>],
     [k \in DOMAIN FullInput \ {"username"} |-> FullInput[k]]}

InitFlow ==
    /\ ClientHolding(NoInfo)
    /\ DataIdle
    /\ doc = <<>>
    /\ parser = NewParser
    /\ hass = NoHass
    /\ flow \in {NoFlow, [NoFlow EXCEPT !.entries = 1]}

\* the step ends: nothing but the flow changes
FlowReturns(f) ==
    /\ flow' = f
    /\ UNCHANGED <<now, info, issued, loginCount, loginPc, L, hops, loginResult,
                   infoAtLogin, op, lastReq, expiredRead, coord>>
    /\ UNCHANGED dvars
    /\ UNCHANGED <<doc, parser, hass>>

\* lines 33-51: async_step_user up to the login call it awaits
AsyncStepUser ==
    /\ flow.pc = "idle"
    /\ loginPc = "idle"
    /\ op.pc = "idle"
    /\ \E user_input \in UserInputs \cup {NoInput} :
         LET f == [flow EXCEPT !.user_input = user_input] IN
         IF flow.entries > 0
         THEN FlowReturns([f EXCEPT !.result =
                             FlowResult("abort", "single_instance_allowed", "none")])
         ELSE IF user_input = NoInput
         THEN FlowReturns([f EXCEPT !.result = async_show_form("none")])
         ELSE LET energy_rate == energy_rate_of(user_input) IN
              IF energy_rate.raised # "none"
              THEN FlowReturns([f EXCEPT !.result =
                                   async_show_form(errors_of(energy_rate.raised))])
              ELSE IF {"username", "password"} \ DOMAIN user_input # {}
              THEN FlowReturns([f EXCEPT !.result = async_show_form(errors_of("KeyError"))])
              ELSE /\ loginCount < MaxLogins
                   /\ flow' = [f EXCEPT !.pc = "login", !.result = NoFlowResult]
                   /\ rates' = energy_rate.value
                   /\ info' = NoInfo
                   /\ issued' = NoInfo
                   /\ loginCount' = loginCount + 1
                   /\ loginPc' = "hop1"
                   /\ L' = [InitL EXCEPT !.v = SessionTags[loginCount + 1],
                                          !.authentication_url = SeattleAuthenticationUrl]
                   /\ hops' = <<>>
                   /\ loginResult' = Running
                   /\ infoAtLogin' = NoInfo
                   /\ op' = OpIdle
                   /\ lastReq' = NoReq
                   /\ UNCHANGED <<now, expiredRead, coord>>
                   /\ UNCHANGED <<today, history, usage, result, trav>>
                   /\ UNCHANGED <<doc, parser, hass>>

\* lines 47-52: the login call is over; get_meters is called or the form shown
AsyncStepUserLogin ==
    /\ flow.pc = "login"
    /\ loginPc = "idle"
    /\ IF loginResult = LoginOK
       THEN /\ flow' = [flow EXCEPT !.pc = "meters"]
            /\ op' = StartedOp("get_meters")
            /\ lastReq' = NoReq
            /\ UNCHANGED <<now, info, issued, loginCount, loginPc, L, hops,
                           loginResult, infoAtLogin, expiredRead, coord>>
            /\ UNCHANGED dvars
            /\ UNCHANGED <<doc, parser, hass>>
       ELSE FlowReturns([flow EXCEPT !.pc = "idle",
                                     !.result = async_show_form(errors_of(loginResult.raised))])

\* lines 52-57: the get_meters call is over; the entry is created or the form shown
AsyncStepUserMeters ==
    /\ flow.pc = "meters"
    /\ op.pc = "idle"
    /\ IF op.result # "returned"
       THEN FlowReturns([flow EXCEPT !.pc = "idle",
                                     !.result = async_show_form(errors_of(op.result))])
       ELSE IF MetersFound(op.meters)
       THEN FlowReturns([flow EXCEPT !.pc = "idle", !.entries = @ + 1,
                                     !.result = FlowResult("create_entry", "none", "none")])
       ELSE FlowReturns([flow EXCEPT !.pc = "idle",
                                     !.result = async_show_form("invalid_meter")])

NextFlow ==
    \/ AsyncStepUser
    \/ Hop1 \/ Hop2 \/ Hop3 \/ Hop4 \/ Hop5 \/ Hop6 \/ Hop7 \/ Hop8 \/ Hop9
    \/ AsyncStepUserLogin
    \/ OpPayload
    \/ OpSend
    \/ AsyncStepUserMeters

SpecFlow == InitFlow /\ [][NextFlow]_vars

\* ================================================================= claims
LoginFailed == loginResult.raised = "ConnectionRefusedError"
OriginalExceptions == {"HTTPError", "LookupError", "MissingSchema", "TypeError",
                       "JSONDecodeError", "AttributeError", "ValueError"}

\* C1: on a client that holds no token bundle, a read of is_token_expired
\* gives true; it does not raise.
C1_FreshClientReportsExpired ==
    (info = NoInfo /\ expiredRead # "unread") => expiredRead = "True"

\* C2: a login call that fails leaves the bundle held when it began exactly as
\* it was; the bundle differs from that one only after a login whose ninth
\* request, the token exchange, was answered successfully.
C2_FailedLoginKeepsBundle ==
    /\ LoginFailed => info = infoAtLogin
    /\ info # infoAtLogin =>
          /\ loginResult = LoginOK
          /\ Len(hops) = 9
          /\ hops[9].resp.status < 400
          /\ hops[9].resp.isJson

C2_Witness ==
    /\ LoginFailed
    /\ info # NoInfo
    /\ info = infoAtLogin
    /\ Len(hops) = 9

\* C3: no authenticated request is sent carrying a bundle that is expired at
\* the moment of sending (now - created >= expires_in).
C3_NoRequestWithExpiredBundle == ~lastReq.expired

\* C4: an operation fails on a 401 answer only after one re-login and one
\* retry, that is after the request has been sent twice.
C4_RetryOnceOn401 ==
    (op.result = "HTTPError" /\ lastReq.status = 401) =>
        (op.attempts = 2 /\ op.relogins = 1)

\* C5: whatever fails inside a login call, the call raises
\* ConnectionRefusedError and the original exception is its cause.
C5_LoginFailureIsWrapped ==
    /\ loginResult.raised \in {"none", "running", "ok", "ConnectionRefusedError"}
    /\ LoginFailed => loginResult.cause \in OriginalExceptions
    /\ (loginPc = "idle" /\ hops # <<>>) =>
        LET k == Len(hops) r == hops[k].resp IN
        /\ r.status >= 400 => LoginFailed /\ loginResult.cause = "HTTPError"
        /\ (k = 1 /\ r.status < 400 /\ r.Location = NoneStr) =>
              LoginFailed /\ loginResult.cause = "LookupError"
        /\ (k \in {2, 8} /\ r.status < 400 /\ r.Location = NoneStr) => LoginFailed
        /\ (k \in {5, 9} /\ r.status < 400 /\ ~r.isJson) =>
              LoginFailed /\ loginResult.cause = "JSONDecodeError"
        /\ (k = 4 /\ r.status < 400 /\ r.initialState # JsonText(r.signinAT[2])) =>
              LoginFailed

C5_Witness ==
    /\ LoginFailed
    /\ loginResult.cause = "AttributeError"
    /\ Len(hops) = 8
    /\ hops[8].resp.Location = NoneStr

\* C6: a login sends GET SSO entry, GET oracle location, GET identity URL,
\* POST identity form, POST credentials, POST authnToken to the session URL,
\* POST session form, POST SAML form, POST token exchange, in this order, each
\* built from the answers before it; the token exchange carries the last path
\* segment of the SAML answer's Location, and a successful login has sent all
\* nine and holds the ninth answer as its bundle.
ExpectedMethods == <<"GET", "GET", "GET", "POST", "POST", "POST", "POST", "POST", "POST">>

BuiltFromPrevious(i) ==
    LET h == hops[i] IN
    CASE i = 1 -> h.url = SsoEntryUrl
      [] i = 2 -> h.url = hops[1].resp.Location
      [] i = 3 -> h.url = hops[2].resp.Location
      [] i = 4 -> h.url = hops[3].resp.form_url /\ h.data = hops[3].resp.form_data
      [] i = 5 -> /\ h.url \in {DefaultAuthenticationUrl, SeattleAuthenticationUrl}
                  /\ SubSeq(h.data, 3, 4) = hops[4].resp.signinAT
      [] i = 6 -> /\ h.url = SubSeq(hops[4].resp.baseUri, 1, 4) \o SessionPath
                  /\ h.data = hops[5].resp.authnToken
      [] i = 7 -> h.url = hops[6].resp.form_url /\ h.data = hops[6].resp.form_data
      [] i = 8 -> h.url = hops[7].resp.form_url /\ h.data = hops[7].resp.form_data
      [] OTHER -> /\ h.url = AuthTokenUrl
                  /\ LET loc == hops[8].resp.Location IN h.data[1] = loc[Len(loc)]

C6_LoginRequestOrder ==
    /\ Len(hops) <= 9
    /\ \A i \in 1..Len(hops) :
          /\ hops[i].hop = i
          /\ hops[i].method = ExpectedMethods[i]
          /\ BuiltFromPrevious(i)
    /\ loginResult = LoginOK =>
          /\ Len(hops) = 9
          /\ info = hops[9].resp.json
    /\ (loginPc # "idle" /\ Len(hops) < 9) => info = infoAtLogin

C6_Witness ==
    /\ loginResult = LoginOK
    /\ Len(hops) = 9
    /\ hops[9].data[1] = hops[1].resp.Location[5]
    /\ info = hops[9].resp.json

\* C7: within one login call no hop's request is sent twice, and a hop whose
\* answer is an error status is the last one sent: the call has ended failed.
C7_NoRetryNoLaterHop ==
    /\ \A i, j \in 1..Len(hops) : i # j => hops[i].hop # hops[j].hop
    /\ \A i \in 1..Len(hops) :
          hops[i].resp.status >= 400 =>
              /\ i = Len(hops)
              /\ loginPc = "idle"
              /\ LoginFailed
    /\ LoginFailed => loginPc = "idle"

C7_Witness ==
    /\ LoginFailed
    /\ loginPc = "idle"
    /\ Len(hops) = 5
    /\ hops[5].resp.status >= 400

C9_NoBundleNoRequest ==
    /\ info = NoInfo => (lastReq = NoReq /\ op.attempts = 0)
    /\ (info = NoInfo /\ op.result \notin {"none", "running"}) =>
          op.result = "AuthenticationRequired"

C9_Witness ==
    /\ info = NoInfo
    /\ op.kind = "get_latest_usage"
    /\ op.result = "AuthenticationRequired"
    /\ lastReq = NoReq

\* C10: at every instant a reader can look, the bundle is absent (no answer
\* yet) or the token endpoint's last answer as a whole, and it changes only in
\* the step in which a login's token exchange succeeds, to that whole answer.
C10_BundleReplacedWhole ==
    /\ [](info = issued)
    /\ [][info' # info =>
            /\ loginPc = "hop9"
            /\ loginResult' = LoginOK
            /\ info' = hops'[9].resp.json
            /\ info' = issued']_vars

C10_Witness ==
    /\ op.pc # "idle"
    /\ op.phase = "send"
    /\ loginResult = LoginOK
    /\ infoAtLogin # NoInfo
    /\ info # infoAtLogin
    /\ op.payload.customerId = infoAtLogin.user.customerId

\* ------------------------------------------------ what the claims compare with
\* the day and the reading a history entry was written from
EntryDay(i) == CHOOSE d \in HistoryDays(today) : DateText(d) = history[i].chargeDateRaw
EntryKWh(i) == CHOOSE k \in HistoryKWh : str(k) = history[i].billedConsumption
MonthOfDay(d) == Cardinality({m \in 1..12 : CumDays[m] < d})
Smaller(a, b) == IF a <= b THEN a ELSE b
Larger(a, b) == IF a >= b THEN a ELSE b
\* the cost the rate schedule r gives k kWh used on day d
ExpectedCost(r, d, k) ==
    LET blockSize == IF 4 <= MonthOfDay(d) /\ MonthOfDay(d) <= 9 THEN 10 ELSE 16 IN
    r.base + r.first_block * Smaller(k, blockSize)
    + r.second_block * Larger(0, k - blockSize) + r.misc_per_kWh * k
\* entry i has a non-zero reading and is dated yesterday or today
Qualifies(i) == EntryKWh(i) # 0 /\ today - 1 <= EntryDay(i) /\ EntryDay(i) <= today
NonZeroOn(i, d) == EntryKWh(i) # 0 /\ EntryDay(i) = d
LatestReturned == result.call = "get_latest_meter_usage" /\ result.raised = "none"
DailyReturned == result.call = "get_daily_usage" /\ result.raised = "none"
Costed == result.call = "_estimate_usage_cost"

\* C13: get_latest_meter_usage returns, without raising, the last entry of the
\* history that has a non-zero reading and is dated within [yesterday 00:00,
\* today 23:59:59.999], and None when no entry qualifies.
C13_LatestQualifyingOrNone ==
    result.call = "get_latest_meter_usage" =>
        /\ result.raised = "none"
        /\ LET Q == {i \in 1..Len(history) : Qualifies(i)} IN
           IF Q = {} THEN result.value = NoUsage
           ELSE LET i == CHOOSE x \in Q : \A y \in Q : y <= x IN
                /\ "date" \in DOMAIN result.value
                /\ result.value.date = combine(EntryDay(i), 0)
                /\ result.value.usage_kWh = EntryKWh(i)

\* C14 as stated: whenever the history holds a non-zero entry dated yesterday,
\* the record get_latest_meter_usage returns is dated yesterday.
C14_YesterdayReturned ==
    (LatestReturned /\ \E i \in 1..Len(history) : NonZeroOn(i, today - 1)) =>
        /\ "date" \in DOMAIN result.value
        /\ dateOf(result.value.date) = today - 1

\* C14: whenever the history holds a non-zero entry dated yesterday, the record
\* get_latest_meter_usage returns is dated yesterday unless a non-zero entry
\* dated today follows the last such entry, and then it is dated today.
C14_LastNonZeroInWindow ==
    (LatestReturned /\ \E i \in 1..Len(history) : NonZeroOn(i, today - 1)) =>
        /\ "date" \in DOMAIN result.value
        /\ LET y == CHOOSE i \in 1..Len(history) :
                      /\ NonZeroOn(i, today - 1)
                      /\ \A j \in 1..Len(history) : NonZeroOn(j, today - 1) => j <= i
           IN dateOf(result.value.date) =
                IF \E j \in 1..Len(history) : j > y /\ NonZeroOn(j, today)
                THEN today ELSE today - 1

C14_Witness ==
    /\ LatestReturned
    /\ \E i \in 1..Len(history) : NonZeroOn(i, today - 1)
    /\ "date" \in DOMAIN result.value
    /\ dateOf(result.value.date) = today

\* C15: the list get_daily_usage returns holds exactly the history entries
\* dated within [start, end], both ends included, in the provider's order,
\* each as a MeterUsage with its date, its reading and its computed cost.
C15_DailyUsageInRange ==
    DailyReturned =>
        LET In == {i \in 1..Len(history) :
                     /\ result.start <= combine(EntryDay(i), 0)
                     /\ combine(EntryDay(i), 0) <= result.end}
        IN /\ Len(result.value) = Cardinality(In)
           /\ \A j \in 1..Len(result.value) :
                LET i == CHOOSE x \in In : Cardinality({y \in In : y <= x}) = j IN
                result.value[j] = MeterUsage(combine(EntryDay(i), 0), EntryKWh(i),
                                             ExpectedCost(rates, EntryDay(i), EntryKWh(i)))

C15_Witness ==
    /\ DailyReturned
    /\ Len(history) = MaxHistory
    /\ Len(result.value) = 1
    /\ result.value[1].cost > 0
    /\ result.value[1].date = result.end

\* C16: on a client without rates, get_daily_usage and get_latest_meter_usage
\* on a non-empty history do not raise, and every record they return has cost 0.
C16_NoRatesCostZero ==
    (rates = NoRates /\ history # <<>>) =>
        /\ result.call = "get_daily_usage" =>
             /\ result.raised = "none"
             /\ \A j \in 1..Len(result.value) : result.value[j].cost = 0
        /\ result.call = "get_latest_meter_usage" =>
             /\ result.raised = "none"
             /\ "cost" \in DOMAIN result.value => result.value.cost = 0

\* C17: with rates present the cost is base + first_block * min(k, blockSize)
\* + second_block * max(0, k - blockSize) + misc_per_kWh * k, where blockSize
\* is 10 in the months 4..9 and 16 in the other months.
C17_CostFormula ==
    (Costed /\ rates # NoRates) =>
        /\ result.value.cost = ExpectedCost(rates, dateOf(usage.date), usage.usage_kWh)
        /\ usage = result.value

C17_Witness ==
    /\ Costed
    /\ rates = Rates(MaxRate, 1, MaxRate, 1)
    /\ MonthOfDay(dateOf(usage.date)) = 9
    /\ usage.usage_kWh = MaxKWh

\* C18: with rates present a usage of 0 kWh costs exactly rates.base, in
\* every month.
C18_ZeroUsageCostsBase ==
    (Costed /\ rates # NoRates /\ usage.usage_kWh = 0) => result.value.cost = rates.base

C18_Witness ==
    /\ Costed
    /\ rates = Rates(1, MaxRate, MaxRate, MaxRate)
    /\ usage.usage_kWh = 0
    /\ MonthOfDay(dateOf(usage.date)) = 12

\* C19: costing the same usage a second time with the same rates returns what
\* the first time returned and leaves the usage as it was: the cost the usage
\* already holds does not enter the result.
C19_CostingIdempotent ==
    [][(Costed /\ result'.call = "_estimate_usage_cost") =>
          (result'.value = result.value /\ usage' = usage)]_vars

C19_Witness ==
    /\ Costed
    /\ result.n = 2
    /\ rates # NoRates
    /\ usage.cost > 0

\* the get_meters traversal is over and nothing has been requested since
GetMetersOver ==
    /\ trav.kind # "none"
    /\ trav.pc \in {"idle", "usage"}
    /\ trav.lastReq.path # "rest/usage/month"
GetMetersReturned == result.call = "get_meters" /\ result.raised = "none"

\* C11: the map of get_meters holds exactly one Meter per meter id that some
\* bill lists, and the Meter of an id is the one built from the first bill
\* that lists it in traversal order, with that bill's Account and Bill.
C11_FirstBillKept ==
    /\ DOMAIN trav.meters.at = DOMAIN trav.first
    /\ Len(trav.meters.keys) = Cardinality(DOMAIN trav.meters.at)
    /\ \A id \in DOMAIN trav.first :
         trav.meters.at[id] = Meter(id, trav.first[id].account, trav.first[id].bill)
    /\ GetMetersReturned => result.value = trav.meters

C11_Witness ==
    /\ GetMetersReturned
    /\ trav.again
    /\ \E id \in DOMAIN result.value.at :
         result.value.at[id].account.account_number # trav.lastReq.accountNumber

\* C12: every account-holders request asks for page "1", no other request
\* names a page, and when get_meters is over it has sent one account-holders
\* request per account group and one bill-comparison request per holder
\* account the provider returned.
C12_OneRequestPerGroupPageOne ==
    /\ trav.lastReq.path = "rest/account/list/some" => trav.lastReq.page = <<"1">>
    /\ trav.lastReq.path # "rest/account/list/some" => trav.lastReq.page = NoneStr
    /\ trav.holdersReqs <= trav.groupsSeen
    /\ trav.billsReqs <= trav.holdersSeen
    /\ GetMetersOver => /\ trav.holdersReqs = trav.groupsSeen
                        /\ trav.billsReqs = trav.holdersSeen

C12_Witness ==
    /\ GetMetersOver
    /\ trav.morePages
    /\ trav.groupsSeen = MaxDirGroups
    /\ trav.holdersSeen >= 1

\* C20: the map get_latest_usage returns has exactly the keys of the map
\* get_meters gave it, and the value at a key is a usage record or None.
C20_LatestUsageKeysAreMeterKeys ==
    (result.call = "get_latest_usage" /\ result.raised = "none") =>
        /\ DOMAIN result.value.at = DOMAIN trav.meters.at
        /\ \A id \in DOMAIN result.value.at :
             result.value.at[id] = NoUsage \/ "date" \in DOMAIN result.value.at[id]

C20_Witness ==
    /\ result.call = "get_latest_usage"
    /\ result.raised = "none"
    /\ \E id \in DOMAIN result.value.at : result.value.at[id] = NoUsage
    /\ \E id \in DOMAIN result.value.at : result.value.at[id] # NoUsage

\* ------------------------------------------------ the credentials of a login
\* the body of a request holds the username or the password
HasCredentials(data) ==
    \E i \in 1..Len(data) : data[i] \in {Username[1], Password[1]}
CredentialRequests == {i \in 1..Len(hops) : HasCredentials(hops[i].data)}

\* C21: of the requests of one login at most one carries the username and the
\* password; it is the step-5 POST, and its URL is the authentication URL the
\* caller gave (https://login.seattle.gov/authenticate from
\* SeattleUtilityClient.login) or, without one, https://<base_domain>/authenticate:
\* never a URL read from a page, a form or a redirect.
C21_CredentialsOnlyToAuthenticationUrl ==
    \A i \in 1..Len(hops) :
        /\ HasCredentials(hops[i].data) <=> hops[i].hop = 5
        /\ hops[i].hop = 5 =>
             /\ \A j \in 1..Len(hops) : hops[j].hop = 5 => j = i
             /\ hops[i].method = "POST"
             /\ hops[i].url \in {DefaultAuthenticationUrl, SeattleAuthenticationUrl}
             /\ loginPc # "idle" =>
                   hops[i].url = IF L.authentication_url = NoneStr
                                 THEN DefaultAuthenticationUrl ELSE L.authentication_url

C21_Witness ==
    /\ loginResult = LoginOK
    /\ Len(hops) = 9
    /\ CredentialRequests = {5}
    /\ hops[5].url = SeattleAuthenticationUrl
    /\ hops[4].resp.baseUri # NoneStr

\* C22: when the identity script lacks signinAT, baseUri or initialState, the
\* login fails at the extraction: the step-5 credential POST is not sent.
C22_MissingItemStopsBeforeCredentials ==
    \A i \in 1..Len(hops) :
        ( /\ hops[i].hop = 4
          /\ StatusOK(hops[i].resp.status)
          /\ \/ hops[i].resp.signinAT = NoneStr
             \/ hops[i].resp.baseUri = NoneStr
             \/ hops[i].resp.initialState = NoneStr )
        => CredentialRequests = {}

\* ------------------------------------------------ what the form parser gave
FormInfoRead == result.call = "form_info"
\* the attribute called n of tag i of the document, None when it has none
AttrOf(i, n) ==
    LET at == {k \in 1..Len(doc[i].attrs) : doc[i].attrs[k][1] = n} IN
    IF at = {} THEN NoneStr ELSE doc[i].attrs[CHOOSE k \in at : TRUE][2]
HasAttr(i, n) == \E k \in 1..Len(doc[i].attrs) : doc[i].attrs[k][1] = n
\* the form tags that have an action, the input tags
ActionForms == {i \in 1..Len(doc) : doc[i].tag = "form" /\ doc[i].kind = "start"
                                    /\ HasAttr(i, <<"action">>)}
Inputs == {i \in 1..Len(doc) : doc[i].tag = "input" /\ doc[i].kind # "end"}

\* C23: of several form tags that each have an action, the extractor returns
\* the action of the first; the action of a later form never replaces it.
C23_FirstFormActionKept ==
    (FormInfoRead /\ ActionForms # {}) =>
        LET first == CHOOSE i \in ActionForms : \A j \in ActionForms : i <= j IN
        result.value[1] = AttrOf(first, <<"action">>)

\* C24: for a form with an action whose input tags each have a name and a
\* value and are start tags only (not self-closed, no end tag), the extractor
\* returns the action and a mapping that holds every input's name with its value.
C24_StartTagInputsCaptured ==
    ( /\ FormInfoRead
      /\ Cardinality(ActionForms) = 1
      /\ \A i \in 1..Len(doc) : doc[i].tag = "input" =>
            /\ doc[i].kind = "start"
            /\ HasAttr(i, <<"name">>)
            /\ HasAttr(i, <<"value">>) )
    => /\ \A f \in ActionForms : result.value[1] = AttrOf(f, <<"action">>)
       /\ \A i \in Inputs :
            /\ InDict(AttrOf(i, <<"name">>), result.value[2])
            /\ result.value[2].at[AttrOf(i, <<"name">>)] = AttrOf(i, <<"value">>)

\* C25: every entry of the extracted mapping is the name and the value of one
\* input tag that has both attributes: a tag lacking either adds no entry, and
\* the name of one tag is never paired with the value of another.
C25_PairsFromOneTag ==
    FormInfoRead =>
        \A k \in DOMAIN result.value[2].at :
            \E i \in Inputs :
                /\ HasAttr(i, <<"name">>)
                /\ HasAttr(i, <<"value">>)
                /\ AttrOf(i, <<"name">>) = k
                /\ AttrOf(i, <<"value">>) = result.value[2].at[k]

\* ------------------------------------------- what the script extractor gave
Extracted == result.call = "identity_data"
\* the calls of the script the pattern matches
Matched == {i \in 1..Len(doc) : doc[i].fn = "setItem" /\ doc[i].gap <= 1 /\ doc[i].semi}
LastOf(k) == CHOOSE i \in Matched : doc[i].key = k /\ \A j \in Matched : doc[j].key = k => j <= i
IsJsonText(v) == v[1] = "json"
ParsedJson(v) == IF IsJsonText(v) THEN <<"state", v[2]>> ELSE NoneStr

C27_LastWriteWins ==
    (Extracted /\ result.raised = "none") =>
        /\ DOMAIN result.value.at = {doc[i].key : i \in Matched}
        /\ \A k \in DOMAIN result.value.at :
             result.value.at[k] = IF k = <<"initialState">> THEN ParsedJson(doc[LastOf(k)].value)
                                  ELSE doc[LastOf(k)].value

C27_Witness ==
    /\ Extracted
    /\ result.raised = "none"
    /\ \E i \in Matched, j \in Matched :
         /\ i < j
         /\ doc[i].key = doc[j].key
         /\ doc[i].key # <<"initialState">>
         /\ doc[i].value # doc[j].value
         /\ result.value.at[doc[j].key] = doc[j].value

\* C28: while a login overlaps an authenticated request, the customer id in
\* the payload of the request and the bearer token of its Authorization header
\* are read from one token bundle (the token endpoint's n-th answer carries
\* the access token n and the customer id n).
C28_PayloadAndTokenOfOneBundle ==
    lastReq.path # "none" => lastReq.customerId = lastReq.token

\* C29: get_meters and get_latest_usage are all-or-nothing: once a request of
\* the traversal is answered with an error status the call has raised (it has
\* not returned a map), no further request of that call is sent, and no step
\* of the call changes the token bundle.
C29_AllOrNothing ==
    [][/\ (lastReq'.path # "none" /\ lastReq'.status >= 400) =>
            (op'.pc = "idle" /\ op'.result = "HTTPError")
       /\ (lastReq.path # "none" /\ lastReq.status >= 400) =>
            lastReq' \in {lastReq, NoReq}
       /\ (op.pc # "idle" /\ op' # op) => info' = info]_vars

C29_Witness ==
    /\ op.kind = "get_latest_usage"
    /\ op.result = "HTTPError"
    /\ op.meters # {}
    /\ lastReq.path = "rest/usage/month"
    /\ lastReq.status = 500
    /\ info # NoInfo

\* C30: after a successful refresh that delivers a usage record for a meter,
\* the energy entity and the cost entity of that meter report that record:
\* native_value is its reading (its cost) with two decimals, last_reset is its
\* date, in the properties and in the state the listener has written.
C30_EntitiesReportLatestRecord ==
    \A i \in 1..Len(hass.entities) :
        LET e == hass.entities[i] IN
        ( /\ e.added
          /\ hass.refreshes >= 1
          /\ hass.last_update_success
          /\ "keys" \in DOMAIN hass.data
          /\ InDict(e.meter, hass.data)
          /\ hass.data.at[e.meter] # NoUsage )
        => LET r == hass.data.at[e.meter]
               shown == Format2f(IF e.kind = "energy" THEN r.usage_kWh ELSE r.cost)
           IN /\ native_value(e) = shown
              /\ last_reset(e) = [date |-> r.date]
              /\ e.written = [native_value |-> shown, last_reset |-> [date |-> r.date]]

\* C31: the user step of the config flow creates a config entry only when
\* the login has succeeded and get_meters has returned at least one meter;
\* it answers a failed login with the form and the error invalid_auth, and
\* that error with nothing else; it answers an empty meter map with the form
\* and the error invalid_meter; neither creates an entry; and when an entry
\* exists the step aborts without starting a login or sending a request.
C31_EntryOnlyAfterLoginAndMeters ==
    [][/\ (flow'.entries # flow.entries \/ (flow' # flow /\ flow'.result.type = "create_entry")) =>
            /\ flow.entries = 0
            /\ flow'.entries = 1
            /\ flow'.result.type = "create_entry"
            /\ flow.pc = "meters"
            /\ loginResult = LoginOK
            /\ Len(hops) = 9
            /\ info # NoInfo
            /\ op.kind = "get_meters"
            /\ op.result = "returned"
            /\ op.meters # {}
       /\ (flow.pc = "login" /\ loginPc = "idle" /\ loginResult # LoginOK /\ flow' # flow) =>
            /\ loginResult.raised = "ConnectionRefusedError"
            /\ flow'.result = [type |-> "form", reason |-> "none", errors |-> "invalid_auth"]
            /\ flow'.pc = "idle"
       /\ (flow' # flow /\ flow'.result.errors = "invalid_auth") =>
            (flow.pc = "login" /\ loginResult.raised = "ConnectionRefusedError")
       /\ (flow.pc = "meters" /\ op.pc = "idle" /\ op.result = "returned" /\ op.meters = {}
           /\ flow' # flow) =>
            /\ flow'.result = [type |-> "form", reason |-> "none", errors |-> "invalid_meter"]
            /\ flow'.pc = "idle"
       /\ (flow.pc = "idle" /\ flow.entries > 0 /\ flow' # flow) =>
            /\ flow'.result.type = "abort"
            /\ flow'.pc = "idle"
            /\ flow'.entries = flow.entries
            /\ loginCount' = loginCount /\ loginPc' = loginPc /\ hops' = hops
            /\ lastReq' = lastReq /\ info' = info]_vars

C31_Witness ==
    /\ flow.result.type = "abort"
    /\ flow.entries = 1
    /\ loginCount = MaxLogins
    /\ loginResult = LoginOK
    /\ op.result = "returned"
    /\ op.meters # {}
    /\ "username" \in DOMAIN flow.user_input

====
